---- MODULE Spec2Model ----
(***************************************************************************)
(* Model of the conversation orchestrator of Vastu-Netra-AI                *)
(* (src/src/pages/Index.tsx: useServerLLM / generateResponse, the response *)
(* sanitizer cleanThinkingContent, and the callbacks and fallback timer of *)
(* handleSend).                                                            *)
(*                                                                         *)
(* Text is modelled as a sequence of tokens (strings): a token is a word,  *)
(* a white-space character, a line terminator, a <think> delimiter or a    *)
(* reasoning opener.  A JSON text is a token sequence too, so that         *)
(* JSON.parse and JSON.stringify are real conversions that can fail.       *)
(***************************************************************************)
EXTENDS Integers, Sequences, FiniteSets, TLC

----------------------------------------------------------------------------
(* Bounds of the model *)

\* chunks the transport may deliver over one turn
MaxChunks == 3
\* the longest answer the sanitizer is given
MaxText == 4
\* the most tagged reasoning spans an answer has
MaxSpans == 2
\* the longest room list a key of useLocalStorage holds
MaxRooms == 2

----------------------------------------------------------------------------
(* Tokens *)

SP == " "
NL == "\n"
CR == "\r"
THINK_OPEN == "<think>"
THINK_CLOSE == "</think>"
DETAILS_OPEN == "<details class=thinking-container><summary>View AI Reasoning</summary>"
DETAILS_CLOSE == "</details>"
FALLBACK_SENTENCE == "I've processed your request. The floor plan has been generated and is displayed in the viewer."

Whitespace == {SP, NL, CR}

\* one opener of each of the three thinkingPatterns
Openers == {"Okay,", "The user", "Looking at"}

RECURSIVE trimStart(_)
trimStart(s) ==
  IF s = <<>> THEN <<>>
  ELSE IF Head(s) \in Whitespace THEN trimStart(Tail(s)) ELSE s

RECURSIVE trimEnd(_)
trimEnd(s) ==
  IF s = <<>> THEN <<>>
  ELSE IF s[Len(s)] \in Whitespace THEN trimEnd(SubSeq(s, 1, Len(s) - 1)) ELSE s

trim(s) == trimEnd(trimStart(s))

\* positions (i, j) of the leftmost, shortest match of /<think>[\s\S]*?<\/think>/
ThinkOpens(text) ==
  {i \in 1..Len(text) : text[i] = THINK_OPEN /\ \E j \in (i+1)..Len(text) : text[j] = THINK_CLOSE}

FirstOpen(text) == CHOOSE i \in ThinkOpens(text) : \A k \in ThinkOpens(text) : i <= k

FirstClose(text, i) ==
  CHOOSE j \in (i+1)..Len(text) :
    /\ text[j] = THINK_CLOSE
    /\ \A k \in (i+1)..Len(text) : text[k] = THINK_CLOSE => j <= k

\* text.replace(/<think>[\s\S]*?<\/think>/gi, '')
RECURSIVE removeThink(_)
removeThink(text) ==
  IF ThinkOpens(text) = {} THEN text
  ELSE LET i == FirstOpen(text)
           j == FirstClose(text, i)
       IN SubSeq(text, 1, i - 1) \o removeThink(SubSeq(text, j + 1, Len(text)))

\* a test for openers that never finds one
looksLikeThinking_never(main) == FALSE

\* /^(Okay,|...)/im : an opener at the start of the text or of any line
looksLikeThinking(main) ==
  \E i \in 1..Len(main) :
    /\ main[i] \in Openers
    /\ (i = 1 \/ main[i-1] \in {NL, CR})

cleanThinkingContent(text) ==
  IF text = <<>> THEN <<>>
  ELSE
    LET hasMatch == ThinkOpens(text) # {}
        i == FirstOpen(text)
        j == FirstClose(text, i)
        think0 == IF hasMatch THEN trim(SubSeq(text, i + 1, j - 1)) ELSE <<>>
        main0 == IF hasMatch THEN trim(removeThink(text)) ELSE text
        moved == looksLikeThinking(main0) /\ think0 = <<>>
        thinkingContent == IF moved THEN main0 ELSE think0
        mainContent == IF moved THEN <<>> ELSE main0
        block == IF thinkingContent # <<>>
                 THEN <<DETAILS_OPEN, NL, NL>> \o thinkingContent \o <<NL, NL, DETAILS_CLOSE, NL, NL>>
                 ELSE <<>>
        result0 == block \o mainContent
        result1 == IF trim(result0) = <<>> THEN <<FALLBACK_SENTENCE>> ELSE result0
    IN trim(result1)

----------------------------------------------------------------------------
(* Program constants *)

\* a loop bound that is one too large
maxRounds_four == 3 + 1

maxRounds == 3
TOOL_NAME == "generate_layout_hybrid"
STEERING == "Tool execution complete. Now provide an INTERACTIVE response ... Do NOT call any tools again."

\* absent values of a tool result (rooms is no array, score is no number)
NoRooms == -1
NoScore == -1

----------------------------------------------------------------------------
(* Tool-call arguments and their JSON text *)

EmptyArgs == [plot_dimensions |-> <<>>, orientation |-> "", rooms_needed |-> <<>>]
SomeArgs == [plot_dimensions |-> <<12, 9>>, orientation |-> "east", rooms_needed |-> <<"kitchen", "study">>]
ArgValues == {EmptyArgs, SomeArgs}

NumTokens(ns) == [i \in 1..Len(ns) |-> ToString(ns[i])]

\* JSON.stringify of an argument object
ArgsJson(a) ==
  <<"{">>
  \o (IF a.plot_dimensions # <<>> THEN <<"plot_dimensions:">> \o NumTokens(a.plot_dimensions) ELSE <<>>)
  \o (IF a.orientation # "" THEN <<"orientation:", a.orientation>> ELSE <<>>)
  \o (IF a.rooms_needed # <<>> THEN <<"rooms_needed:">> \o a.rooms_needed ELSE <<>>)
  \o <<"}">>

\* a parse that loses the orientation
JSONParseArgs_losesOrientation(text) ==
  IF \E v \in ArgValues : ArgsJson(v) = trim(text)
  THEN [ok |-> TRUE,
        value |-> [(CHOOSE v \in ArgValues : ArgsJson(v) = trim(text)) EXCEPT !.orientation = ""]]
  ELSE [ok |-> FALSE, value |-> EmptyArgs]

\* JSON.parse of an argument text: ok = FALSE stands for the SyntaxError
JSONParseArgs(text) ==
  IF \E v \in ArgValues : ArgsJson(v) = trim(text)
  THEN [ok |-> TRUE, value |-> CHOOSE v \in ArgValues : ArgsJson(v) = trim(text)]
  ELSE [ok |-> FALSE, value |-> EmptyArgs]

BadJsonText == <<"{", "plot_dimensions:">>

\* rawArgs of a tool call: a JSON string, a native object, absent, or another type
StrArgs(text) == [kind |-> "string", text |-> text, obj |-> EmptyArgs]
ObjArgs(a) == [kind |-> "object", text |-> <<>>, obj |-> a]
NoArgs == [kind |-> "absent", text |-> <<>>, obj |-> EmptyArgs]

\* interface ToolCall: nested under 'function' or flat
TC_obj == [shape |-> "nested", name |-> TOOL_NAME, arguments |-> ObjArgs(SomeArgs)]
TC_str == [shape |-> "nested", name |-> TOOL_NAME, arguments |-> StrArgs(ArgsJson(SomeArgs))]
TC_bad == [shape |-> "nested", name |-> TOOL_NAME, arguments |-> StrArgs(BadJsonText)]
TC_flat == [shape |-> "flat", name |-> TOOL_NAME, arguments |-> ObjArgs(SomeArgs)]
TC_other == [shape |-> "nested", name |-> "unknown_tool", arguments |-> NoArgs]

\* unparsable text resolved to empty arguments instead of raising
ResolveArgs_emptyOnError(tc) ==
  LET rawArgs == IF tc.arguments.kind = "absent" THEN StrArgs(ArgsJson(EmptyArgs)) ELSE tc.arguments
  IN IF rawArgs.kind = "string" THEN [ok |-> TRUE, value |-> JSONParseArgs(rawArgs.text).value]
     ELSE IF rawArgs.kind = "object" THEN [ok |-> TRUE, value |-> rawArgs.obj]
     ELSE [ok |-> TRUE, value |-> EmptyArgs]

\* lines 1246-1254: resolution of rawArgs; ok = FALSE when JSON.parse throws
ResolveArgs(tc) ==
  LET rawArgs == IF tc.arguments.kind = "absent" THEN StrArgs(ArgsJson(EmptyArgs)) ELSE tc.arguments
  IN IF rawArgs.kind = "string" THEN JSONParseArgs(rawArgs.text)
     ELSE IF rawArgs.kind = "object" THEN [ok |-> TRUE, value |-> rawArgs.obj]
     ELSE [ok |-> TRUE, value |-> EmptyArgs]

----------------------------------------------------------------------------
(* Stream records and their wire text *)

NoRecord == [content |-> <<>>, thinking |-> <<>>, tool_calls |-> <<>>, done |-> FALSE,
             delta |-> <<>>, choice_message |-> <<>>]

\* the JSON bodies the endpoint sends, by the token that stands for the body
Catalogue ==
  [rT |-> [NoRecord EXCEPT !.content = <<"a">>],
   rW |-> [NoRecord EXCEPT !.content = <<SP>>],
   rK |-> [NoRecord EXCEPT !.thinking = <<"b">>],
   rC |-> [NoRecord EXCEPT !.tool_calls = <<TC_obj>>],
   rF |-> [NoRecord EXCEPT !.tool_calls = <<TC_flat>>],
   rS |-> [NoRecord EXCEPT !.tool_calls = <<TC_str>>],
   rM |-> [NoRecord EXCEPT !.content = <<"a">>, !.tool_calls = <<TC_bad, TC_other>>],
   rD |-> [NoRecord EXCEPT !.done = TRUE],
   rE |-> [NoRecord EXCEPT !.delta = <<"a">>],
   rN |-> [NoRecord EXCEPT !.choice_message = <<"a">>]]

\* the bytes of a two-byte character, the character, and what a decoder
\* puts in the place of a byte sequence it cannot decode
LEAD == "0xC3"
CONT == "0xA9"
E_ACUTE == "e-acute"
REPLACEMENT == "U+FFFD"

\* the escape sequence \n of a JSON string
ESC_NL == "\\n"

\* what an answer is made of: the two tags, an opener, a word, a line break
\* and a blank
AnswerChars == {THINK_OPEN, THINK_CLOSE, "Okay,", "a", ESC_NL, SP}

\* characters a JSON string is made of in the model
StringChars == {"a", E_ACUTE, REPLACEMENT} \cup AnswerChars

\* the text a JSON string stands for
unescape(chars) == [i \in DOMAIN chars |-> IF chars[i] = ESC_NL THEN NL ELSE chars[i]]

\* the keys under which a record spells out its text
CONTENT_KEY == "content:"
DELTA_KEY == "delta:"

\* line 1178: decoder.decode(value), each chunk decoded on its own (no
\* {stream: true}): an incomplete character at either end of the chunk
\* becomes U+FFFD
RECURSIVE decode(_)
decode(value) ==
  IF value = <<>> THEN <<>>
  ELSE IF Head(value) = LEAD
  THEN (IF Len(value) >= 2 /\ value[2] = CONT
        THEN <<E_ACUTE>> \o decode(SubSeq(value, 3, Len(value)))
        ELSE <<REPLACEMENT>> \o decode(Tail(value)))
  ELSE IF Head(value) = CONT THEN <<REPLACEMENT>> \o decode(Tail(value))
  ELSE <<Head(value)>> \o decode(Tail(value))

\* JSON.parse of a line: surrounding white space is allowed, anything but
\* one complete object is a SyntaxError (ok = FALSE)
JSONParse(line) ==
  LET t == trim(line)
  IN IF Len(t) = 3 /\ t[1] = "{" /\ t[3] = "}" /\ t[2] \in DOMAIN Catalogue
     THEN [ok |-> TRUE, value |-> Catalogue[t[2]]]
     ELSE IF /\ Len(t) >= 4 /\ t[1] = "{" /\ t[Len(t)] = "}"
             /\ t[2] \in {CONTENT_KEY, DELTA_KEY}
             /\ \A i \in 3..(Len(t) - 1) : t[i] \in StringChars
     THEN [ok |-> TRUE,
           value |-> IF t[2] = CONTENT_KEY
                     THEN [NoRecord EXCEPT !.content = unescape(SubSeq(t, 3, Len(t) - 1))]
                     ELSE [NoRecord EXCEPT !.delta = unescape(SubSeq(t, 3, Len(t) - 1))]]
     ELSE [ok |-> FALSE, value |-> NoRecord]

Line(name) == <<"{", name, "}">>
\* a record that spells its text out: {"message":{"content":"..."}} in
\* dialect A, {"choices":[{"delta":{"content":"..."}}]} in dialect B
TextLine(key, chars) == <<"{", key>> \o chars \o <<"}">>
DATA_PREFIX == "data: "
DONE_SENTINEL == "[DONE]"

\* streamBuffer.split(/\r?\n/)
RECURSIVE split(_)
split(s) ==
  IF \A i \in 1..Len(s) : s[i] # NL THEN <<s>>
  ELSE LET i == CHOOSE k \in 1..Len(s) : s[k] = NL /\ \A m \in 1..(k-1) : s[m] # NL
           e == IF i > 1 /\ s[i-1] = CR THEN i - 2 ELSE i - 1
       IN <<SubSeq(s, 1, e)>> \o split(SubSeq(s, i + 1, Len(s)))

----------------------------------------------------------------------------
(* Tool results, backend payload, messages *)

NullResult == [status |-> "null", message |-> "", rooms |-> NoRooms, score |-> NoScore,
               solver_type |-> "", solver |-> ""]
NoHandler == [NullResult EXCEPT !.status = "error", !.message = "No handler"]
ExecError == [NullResult EXCEPT !.status = "error", !.message = "Backend generation failed"]
\* body of a 2xx answer of /api/solvers/generate
JsonOk(solver) == [NullResult EXCEPT !.status = "success", !.rooms = 2, !.score = 80,
                                     !.solver_type = solver]
\* body of a non-2xx answer, e.g. {"detail": ...}
ErrBody == [NullResult EXCEPT !.status = "", !.message = "detail"]

\* JSON.stringify(result)
StringifyResult(r) ==
  <<"{">>
  \o (IF r.status # "" THEN <<"status:", r.status>> ELSE <<>>)
  \o (IF r.message # "" THEN <<"message:", r.message>> ELSE <<>>)
  \o (IF r.rooms # NoRooms THEN <<"rooms:", ToString(r.rooms)>> ELSE <<>>)
  \o (IF r.score # NoScore THEN <<"score:", ToString(r.score)>> ELSE <<>>)
  \o (IF r.solver_type # "" THEN <<"solver_type:", r.solver_type>> ELSE <<>>)
  \o (IF r.solver # "" THEN <<"solver:", r.solver>> ELSE <<>>)
  \o <<"}">>

\* lines 1270-1278
defaults ==
  [living_room |-> [w |-> 10, h |-> 10, type |-> "living", name |-> "Living Room"],
   living |-> [w |-> 10, h |-> 10, type |-> "living", name |-> "Living Room"],
   kitchen |-> [w |-> 8, h |-> 8, type |-> "kitchen", name |-> "Kitchen"],
   master_bedroom |-> [w |-> 14, h |-> 12, type |-> "master_bedroom", name |-> "Master Bedroom"],
   bedroom |-> [w |-> 12, h |-> 10, type |-> "bedroom", name |-> "Bedroom"],
   bathroom |-> [w |-> 6, h |-> 6, type |-> "bathroom", name |-> "Bathroom"],
   pooja_room |-> [w |-> 6, h |-> 6, type |-> "pooja", name |-> "Pooja Room"]]

\* lines 1279-1283 (room-type tokens are taken lower-case, without blanks)
baseRooms(roomsNeeded) ==
  [idx \in 1..Len(roomsNeeded) |->
     LET k == roomsNeeded[idx]
         def == IF k \in DOMAIN defaults THEN defaults[k]
                ELSE [w |-> 8, h |-> 8, type |-> k, name |-> k]
     IN [id |-> <<k, ToString(idx)>>, name |-> def.name, type |-> def.type,
         width |-> def.w, height |-> def.h, x |-> 0, y |-> 0]]

\* a retry that also drops the rooms
payload_retryWithoutRooms(args, solver) ==
  LET dims == IF args.plot_dimensions # <<>> THEN args.plot_dimensions ELSE <<30, 30>>
      width == IF dims[1] # 0 THEN dims[1] ELSE 30
      length == IF Len(dims) >= 2 /\ dims[2] # 0 THEN dims[2] ELSE 30
  IN [rooms |-> IF solver = "graph" THEN <<>> ELSE baseRooms(args.rooms_needed),
      plotWidth |-> width, plotLength |-> length,
      plotShape |-> "rectangular", solver_type |-> solver, house_facing |-> args.orientation]

\* lines 1264-1292
payload(args, solver) ==
  LET dims == IF args.plot_dimensions # <<>> THEN args.plot_dimensions ELSE <<30, 30>>
      width == IF dims[1] # 0 THEN dims[1] ELSE 30
      length == IF Len(dims) >= 2 /\ dims[2] # 0 THEN dims[2] ELSE 30
  IN [rooms |-> baseRooms(args.rooms_needed), plotWidth |-> width, plotLength |-> length,
      plotShape |-> "rectangular", solver_type |-> solver, house_facing |-> args.orientation]

Msg(role, content, name) == [role |-> role, content |-> content, name |-> name]

\* a message of the session (lines 247-251, 563-567)
Message(role, text, timestamp) == [role |-> role, content |-> text, timestamp |-> timestamp]

\* the session holds an earlier exchange when the turn begins
PriorMessages == <<Message("user", <<"hello">>, "earlier"),
                   Message("assistant", <<"welcome">>, "earlier")>>

\* line 1081: messages.map(m => ({ role: m.role, content: m.content }))
mapMessages(ms) == [i \in DOMAIN ms |-> Msg(ms[i].role, ms[i].content, "")]

ToolMsg(tc, result) == Msg("tool", StringifyResult(result), tc.name)
SteeringMsg == Msg("assistant", <<STEERING>>, "")

\* lines 1532-1540
Summary(r) ==
  <<"Generated layout using", (IF r.solver # "" THEN r.solver ELSE "graph"), "solver">>
  \o (IF r.score # NoScore /\ r.score # 0 THEN <<"(score", ToString(r.score), ")">> ELSE <<>>)
  \o <<". Visualized rooms">>
  \o (IF r.rooms # NoRooms /\ r.rooms # 0 THEN <<"(", ToString(r.rooms), ")">> ELSE <<>>)
  \o <<"have been updated. Summary: ...">>

----------------------------------------------------------------------------
(* What the environment may send *)

ChunksOllama ==
  { Line(n) \o <<NL>> : n \in {"rT", "rC", "rF", "rM"} } \cup { Line("rC") }

ChunksOpenAI ==
  { <<DATA_PREFIX>> \o Line("rE") \o <<NL>>, <<DATA_PREFIX, DONE_SENTINEL, NL>>,
    <<DATA_PREFIX>> \o Line("rE"), <<DATA_PREFIX>> \o Line("rN"),
    <<DATA_PREFIX, "x", NL>>, Line("rE") \o <<NL>>, <<DATA_PREFIX, "{">>, <<"rE", "}", CR, NL>> }

\* response bodies of dialect A, byte by byte: text, a malformed line and a
\* tool call with string arguments; a two-byte character, CR LF and an
\* unterminated last record
StreamsOllama ==
  { Line("rT") \o <<NL, "x", NL>> \o Line("rS") \o <<NL>>,
    TextLine(CONTENT_KEY, <<LEAD, CONT>>) \o <<CR, NL>> \o Line("rT") }

\* response bodies of dialect B: a delta, a malformed line, the sentinel and
\* a delta after it; a two-byte character and CR LF
StreamsOpenAI ==
  { <<DATA_PREFIX>> \o Line("rE") \o <<NL, DATA_PREFIX, "x", NL, DATA_PREFIX, DONE_SENTINEL, NL,
      DATA_PREFIX>> \o Line("rE") \o <<NL>>,
    <<DATA_PREFIX>> \o TextLine(DELTA_KEY, <<LEAD, CONT>>) \o <<CR, NL>> }

\* bodies of the non-streaming answer
FlatBodies == {"rT", "rK", "rD", "rN"}

----------------------------------------------------------------------------
(* The user text of a turn and the parameters handleSend extracts from it *)

\* the number words of the user texts and parseFloat of each
Numbers == ("2" :> 2) @@ ("3" :> 3) @@ ("10" :> 10) @@ ("12" :> 12) @@ ("20" :> 20) @@ ("30" :> 30)
           @@ ("40" :> 40) @@ ("100" :> 100) @@ ("400" :> 400) @@ ("500" :> 500)
           @@ ("600" :> 600)
isNumber(tok) == tok \in DOMAIN Numbers
parseFloat(tok) == Numbers[tok]

\* the word at position i of a text ("" past its end); the words of a text
\* are separated by single blanks
At(text, i) == IF i \in DOMAIN text THEN text[i] ELSE ""

NoMatch == [matched |-> FALSE]
Minimum(S) == CHOOSE n \in S : \A k \in S : n <= k
Maximum(S) == CHOOSE n \in S : \A k \in S : n >= k

\* lines 201 and 405: /(num)\s*(ft|feet|foot)?\s*(x|by)\s*(num)\s*(ft|feet|foot)?
\* (\s*(sq ft))?/i.exec(text): the leftmost match, its two groups, its
\* separator and the position of the last word it covers. The \s* after the
\* second number takes the blank before a following word, so the matched
\* text ends with that number only when the number ends the text.
dimFeet(text) ==
  LET sepAt(i) == IF At(text, i + 1) = "ft" THEN i + 2 ELSE i + 1
      starts == {i \in DOMAIN text : /\ isNumber(text[i])
                                     /\ At(text, sepAt(i)) \in {"x", "by"}
                                     /\ isNumber(At(text, sepAt(i) + 1))}
  IN IF starts = {} THEN NoMatch
     ELSE LET i == Minimum(starts)
              h == sepAt(i) + 1
              unit == IF At(text, h + 1) = "ft" THEN 1 ELSE 0
              sq == IF At(text, h + unit + 1) = "sq ft" THEN 1 ELSE 0
              last == h + unit + sq
          IN [matched |-> TRUE, g1 |-> text[i], g2 |-> text[h], sep |-> text[h - 1],
              endsWithNumber |-> (last = h /\ h = Len(text))]

\* lines 202 and 406
dimMeters(text) ==
  LET starts == {i \in DOMAIN text : /\ isNumber(text[i])
                                     /\ At(text, i + 1) = "m"
                                     /\ At(text, i + 2) \in {"x", "by"}
                                     /\ isNumber(At(text, i + 3))
                                     /\ At(text, i + 4) = "m"}
  IN IF starts = {} THEN NoMatch
     ELSE [matched |-> TRUE, g1 |-> text[Minimum(starts)], g2 |-> text[Minimum(starts) + 3]]

\* lines 203-204 and 407-408: a number followed by the unit of an area
areaPhrase(text, unit) ==
  LET starts == {i \in DOMAIN text : isNumber(text[i]) /\ At(text, i + 1) = unit}
  IN IF starts = {} THEN NoMatch ELSE [matched |-> TRUE, g1 |-> text[Minimum(starts)]]
areaFeet(text) == areaPhrase(text, "sq ft")
areaMeters(text) == areaPhrase(text, "sq m")

\* p/q <= r/s for positive integers, by the continued fractions of both
\* sides (the products p*s and r*q do not fit the integers of the checker)
RECURSIVE LeqFrac(_, _, _, _)
LeqFrac(p, q, r, s) ==
  IF p \div q # r \div s THEN p \div q < r \div s
  ELSE IF p % q = 0 THEN TRUE
  ELSE IF r % s = 0 THEN FALSE
  ELSE LeqFrac(s, r % s, q, p % q)

\* Math.floor(Math.sqrt(n))
FloorSqrt(n) == Maximum({s \in 0..n : s * s <= n})

\* lines 193 and 403: Math.round(ft * 0.3048 * 1000) / 1000 for a whole number
\* of feet, in millimetres
feetToMeters(ft) == (ft * 3048 + 5) \div 10

\* lines 220-223 and 419-422: feetToMeters(Math.sqrt(areaFt)), in millimetres:
\* the whole number mm with mm - 1/2 <= 304.8 * sqrt(areaFt) < mm + 1/2
feetToMetersOfSqrt(areaFt) ==
  LET s == FloorSqrt(areaFt)
  IN CHOOSE mm \in feetToMeters(s)..(feetToMeters(s + 1) + 1) :
       /\ LeqFrac(5 * (2 * mm - 1), 3048, areaFt * 3048, 5 * (2 * mm - 1))
       /\ ~LeqFrac(5 * (2 * mm + 1), 3048, areaFt * 3048, 5 * (2 * mm + 1))

\* lines 196 and 428-430: the first direction followed by 'facing', else the
\* first direction, else north
Directions == {"east", "west", "north", "south"}
orientationOf(text) ==
  LET facing == {i \in DOMAIN text : text[i] \in Directions /\ At(text, i + 1) = "facing"}
      any == {i \in DOMAIN text : text[i] \in Directions}
  IN IF facing # {} THEN text[Minimum(facing)]
     ELSE IF any # {} THEN text[Minimum(any)]
     ELSE "north"

\* lines 197-198 and 426-427: /(\d+)\s*bhk/ (0 when absent)
bhkOf(text) ==
  LET starts == {i \in DOMAIN text : isNumber(text[i]) /\ At(text, i + 1) = "bhk"}
  IN IF starts = {} THEN 0 ELSE parseFloat(text[Minimum(starts)])

rooms3 == <<"kitchen", "living_room", "master_bedroom", "bedroom", "bedroom", "bathroom",
            "bathroom">>
rooms2 == <<"kitchen", "living_room", "bedroom", "bedroom", "bathroom">>

\* a reading of 'W by 3' that keeps the second number
endsWithBy3_never(m) == FALSE

\* lines 211-213 and 411-412: matchedText.endsWith('by 3')
endsWithBy3(m) == m.sep = "by" /\ m.g2 = "3" /\ m.endsWithNumber

\* lines 200-229 and 404-425: width and height of the plot in millimetres
\* (the metric texts of the model carry whole metres and square areas)
extractDimensions(text) ==
  IF dimFeet(text).matched
  THEN LET m == dimFeet(text)
           wFt == parseFloat(m.g1)
           hFt == IF endsWithBy3(m) THEN wFt ELSE parseFloat(m.g2)
       IN [matched |-> TRUE, widthM |-> feetToMeters(wFt), heightM |-> feetToMeters(hFt)]
  ELSE IF dimMeters(text).matched
  THEN [matched |-> TRUE, widthM |-> 1000 * parseFloat(dimMeters(text).g1),
        heightM |-> 1000 * parseFloat(dimMeters(text).g2)]
  ELSE IF areaFeet(text).matched
  THEN LET sideM == feetToMetersOfSqrt(parseFloat(areaFeet(text).g1))
       IN [matched |-> TRUE, widthM |-> sideM, heightM |-> sideM]
  ELSE IF areaMeters(text).matched
  THEN LET sideM == 1000 * FloorSqrt(parseFloat(areaMeters(text).g1))
       IN [matched |-> TRUE, widthM |-> sideM, heightM |-> sideM]
  ELSE NoMatch

\* lines 401-440: null, or the parameters of the direct generation
normalizeParams(text) ==
  LET d == extractDimensions(text)
  IN IF d.matched /\ d.widthM # 0 /\ d.heightM # 0
     THEN [matched |-> TRUE, widthM |-> d.widthM, heightM |-> d.heightM,
           orientation |-> orientationOf(text),
           rooms |-> IF bhkOf(text) = 2 THEN rooms2 ELSE rooms3]
     ELSE NoMatch

\* Math.round(meters * 10) / 10 of a length in millimetres, in decimetres
roundToTenth(mm) == (mm + 50) \div 100

\* lines 191-240: null, or the directive appended to the user message
deriveDirectiveFromContent(text) ==
  LET d == extractDimensions(text)
  IN IF d.matched /\ d.widthM # 0 /\ d.heightM # 0
     THEN <<"CALL TOOL:", TOOL_NAME, "plot_dimensions=",
            ToString(roundToTenth(d.widthM)), ToString(roundToTenth(d.heightM))>>
          \o (IF bhkOf(text) = 3 THEN <<"rooms_needed=">> \o rooms3 ELSE <<>>)
          \o <<"orientation=", orientationOf(text)>>
     ELSE <<>>

\* the user texts of the model
PlainText == <<"design">>
FeetPairs ==
  { <<w>> \o u1 \o <<sep, h>> \o u2 \o rest :
      w \in {"12", "30"}, h \in {"3", "40"}, sep \in {"x", "by"},
      u1 \in {<<>>, <<"ft">>}, u2 \in {<<>>, <<"ft">>}, rest \in {<<>>, <<"plot">>} }
UserTexts ==
  FeetPairs
  \cup { <<"30", "x", "30", "ft">>, <<"400", "sq ft">>, <<"500", "sq ft", "3", "bhk">>,
         <<"2", "bhk", "600", "sq ft", "east", "facing">>,
         <<"10", "m", "x", "12", "m", "south">>, <<"100", "sq m">>,
         PlainText, <<"3", "bhk", "west", "facing">>, <<"12", "bhk", "north">>,
         <<"20", "ft", "width", "600", "ft^2">> }

\* a notice (toast)
Toast(title, description, variant) ==
  [title |-> title, description |-> description, variant |-> variant]


----------------------------------------------------------------------------------------------------------------------------------------------------
(* useLocalStorage: values, their stored form, and the updaters *)

\* the values of a key: lists of at most MaxRooms room ids
Rooms == {"r1", "r2", "r3"}
Values == UNION { [1..n -> Rooms] : n \in 0..MaxRooms }
initialValue == <<>>

\* window.localStorage.getItem(key) of a key that was never written
NoItem == <<"null">>
\* a stored string that is not JSON
CorruptItem == <<"[", "r1">>

\* JSON.stringify(valueToStore) and JSON.parse(item)
JSONStringify(v) == <<"[">> \o v \o <<"]">>
JSONParseItem(text) ==
  IF Len(text) >= 2 /\ text[1] = "[" /\ text[Len(text)] = "]"
  THEN [ok |-> TRUE, value |-> SubSeq(text, 2, Len(text) - 1)]
  ELSE [ok |-> FALSE, value |-> <<>>]

\* the function updaters passed to setValue
Updaters == {"addRoom", "removeRoom"}
Apply(f, v) ==
  IF f = "addRoom" THEN (IF Len(v) < MaxRooms THEN Append(v, "r1") ELSE v)
  ELSE (IF v = <<>> THEN v ELSE Tail(v))

-----
(* State *)

VARIABLES
  isOllama,                    \* config: dialect (line 1067)
  forceDisableToolsDebug,      \* localStorage 'llm_disable_tools' (line 1097)
  pc,                          \* position of generateResponse
  isLoading, error,            \* hook state
  fullResponse, rollingMessages, rounds, haveToolResults, lastToolResult,
  shouldDisableToolsThisRound,
  encounteredToolCall, streamedCharsThisRound, streamBuffer,
  stallTimer,                  \* TRUE while a stall timeout is armed
  aborted,                     \* controller.signal.aborted of the round
  segments,                    \* lines of the current chunk still to process
  calls,                       \* tool calls of the current record still to handle
  args,                        \* resolved arguments of the call being executed
  genRes,                      \* last backend response of the call being executed
  requests,                    \* history: requests sent to the chat endpoint
  responses,                   \* history: how each of these requests was answered
  backendReqs,                 \* history: requests sent to the generation backend
  tokens,                      \* history: onToken deliveries
  notified,                    \* history: onToolCall notifications
  chunksRead,                  \* history: chunks delivered in this turn
  detectedThisRound,           \* history: tool calls detected in the round
  toolMsgsThisRound,           \* history: tool messages appended in the round
  everDetected,                \* history: a tool call was detected in an earlier round
  doneSeen,                    \* history: the round's stream carried 'data: [DONE]'
  WATCHDOG_ENABLED,            \* config: localStorage 'watchdog-enabled' (line 297)
  hs,                          \* position of handleSend
  watchdog,                    \* the fallback timer and the task it starts
  fallbackReqs,                \* history: backend requests sent by the fallback
  rooms,                       \* layout state: the number of rooms shown
  wire,                        \* bytes the endpoint has not yet sent
  sent,                        \* history: bytes delivered in the round
  userContent,                 \* handleSend: its argument content, the user text
  normalized,                  \* handleSend: the result of normalizeParams (line 441)
  sessionMessages,             \* the messages of the active session
  sessionsRef,                 \* sessionsRef.current: the messages the ref shows
  messages,                    \* the array handleSend passes to generateResponse
  directReqs,                  \* history: backend requests of the direct generation
  toasts,                      \* history: the notices shown to the user
  storedValue,                 \* useLocalStorage: the value the component shows
  storedValueRef,              \* useLocalStorage: storedValueRef.current
  item                         \* useLocalStorage: what localStorage holds under the key

vars == <<isOllama, forceDisableToolsDebug, pc, isLoading, error, fullResponse,
          rollingMessages, rounds, haveToolResults, lastToolResult,
          shouldDisableToolsThisRound, encounteredToolCall, streamedCharsThisRound,
          streamBuffer, stallTimer, aborted, segments, calls, args, genRes,
          requests, responses, backendReqs, tokens, notified, chunksRead, detectedThisRound,
          toolMsgsThisRound, everDetected, doneSeen, WATCHDOG_ENABLED, hs, watchdog,
          fallbackReqs, rooms, wire, sent, userContent, normalized, sessionMessages,
          sessionsRef, messages, directReqs, toasts, storedValue, storedValueRef, item>>

\* what only handleSend and the direct generation touch
caller == <<normalized, sessionMessages, sessionsRef, directReqs>>
config == <<isOllama, forceDisableToolsDebug, WATCHDOG_ENABLED, userContent>>
\* the state of the useLocalStorage hook of one key
store == <<storedValue, storedValueRef, item>>
\* what no step of generateResponse touches
outside == <<hs, caller, fallbackReqs, wire, sent>>
turnVars == <<fullResponse, rollingMessages, messages, rounds, haveToolResults, lastToolResult>>
roundVars == <<shouldDisableToolsThisRound, encounteredToolCall, streamedCharsThisRound,
               streamBuffer>>
execVars == <<args, genRes>>
history == <<requests, responses, backendReqs, tokens, notified, chunksRead, detectedThisRound,
             toolMsgsThisRound, everDetected>>

NoResponse == [ok |-> FALSE, solver |-> ""]

\* lines 247-251: the new user message, with the directive when there is one
userMessage ==
  LET directive == deriveDirectiveFromContent(userContent)
  IN Message("user",
             IF directive # <<>> THEN userContent \o <<NL, NL>> \o directive ELSE userContent,
             "now")

\* lines 497-521: the array handleSend supplies: the system prompt, the
\* messages sessionsRef shows and the new user message (no floor plan is shown)
InputMessages ==
  <<Message("system", <<"prompt">>, "now")>> \o sessionsRef \o <<userMessage>>

\* lines 446-453: the request of the direct generation
DirectPayload(n, solver) ==
  [rooms |-> n.rooms, plotWidth |-> roundToTenth(n.widthM),
   plotLength |-> roundToTenth(n.heightM), plotShape |-> "rectangular",
   solver_type |-> solver, house_facing |-> n.orientation]

\* the state after construction of the component and its hooks
Mounted ==
  /\ isOllama \in BOOLEAN
  /\ forceDisableToolsDebug \in BOOLEAN
  /\ pc = "idle"
  /\ isLoading = FALSE
  /\ error = ""
  /\ fullResponse = <<>>
  /\ rollingMessages = <<>>
  /\ rounds = 0
  /\ haveToolResults = FALSE
  /\ lastToolResult = NullResult
  /\ shouldDisableToolsThisRound = FALSE
  /\ encounteredToolCall = FALSE
  /\ streamedCharsThisRound = 0
  /\ streamBuffer = <<>>
  /\ stallTimer = FALSE
  /\ aborted = FALSE
  /\ segments = <<>>
  /\ calls = <<>>
  /\ args = EmptyArgs
  /\ genRes = NoResponse
  /\ requests = <<>>
  /\ responses = <<>>
  /\ backendReqs = <<>>
  /\ tokens = <<>>
  /\ notified = <<>>
  /\ chunksRead = 0
  /\ detectedThisRound = 0
  /\ toolMsgsThisRound = 0
  /\ everDetected = FALSE
  /\ doneSeen = FALSE
  /\ hs = "idle"
  /\ watchdog = "off"
  /\ fallbackReqs = <<>>
  /\ rooms = 0
  /\ sent = <<>>
  /\ normalized = NoMatch
  /\ sessionMessages = PriorMessages
  /\ sessionsRef = PriorMessages
  /\ messages = <<>>
  /\ directReqs = <<>>
  /\ toasts = <<>>

\* lines 934-942 and 150: nothing is stored under the key, the hook starts
\* with its initial value
Constructed ==
  /\ Mounted
  /\ item = NoItem
  /\ storedValue = initialValue
  /\ storedValueRef = initialValue

\* the fallback is disabled (the default, line 297)
Init ==
  /\ Constructed
  /\ WATCHDOG_ENABLED = FALSE
  /\ userContent = PlainText
  /\ wire = <<>>

----------------------------------------------------------------------------
(* generateResponse *)

\* clearTimeout(watchdog): a timer that has fired is not affected
clearTimeout(w) == IF w = "armed" THEN "cleared" ELSE w

\* handleSend, lines 300-301, 444, 490 and 527-547: the two flags of the turn
toolCallDetected == normalized.matched \/ notified # <<>>
toolCallHandled ==
  \/ \E i \in DOMAIN toasts : toasts[i].description = "from normalized input"
  \/ \E i \in DOMAIN notified : notified[i].call.name = TOOL_NAME

\* handleSend, lines 524-553: the onToolCall callback it passes
onToolCall(toolCall, result) ==
  /\ notified' = Append(notified, [call |-> toolCall, result |-> result, round |-> rounds + 1])
  /\ rooms' = IF toolCall.name = TOOL_NAME /\ result.status = "success"
              THEN result.rooms ELSE rooms
  /\ toasts' = IF toolCall.name # TOOL_NAME THEN toasts
               ELSE IF result.status = "success"
               THEN Append(toasts, Toast("Floor Plan Generated", "rooms using solver", "default"))
               ELSE Append(toasts, Toast("Generation failed",
                                         IF result.message # "" THEN result.message
                                         ELSE "Unknown error during layout generation",
                                         "destructive"))
  /\ watchdog' = IF toolCall.name = TOOL_NAME THEN clearTimeout(watchdog) ELSE watchdog

\* handleSend, lines 381-392: the onToken callback it passes (tokensStarted is
\* true once a token was delivered); it is called for non-empty text only
onToken(content) ==
  /\ tokens' = IF content # <<>> THEN Append(tokens, content) ELSE tokens
  /\ watchdog' = IF content # <<>> /\ tokens = <<>> THEN clearTimeout(watchdog) ELSE watchdog

\* lines 149, 391 and 571: the live streaming buffer: onToken appends every
\* token to it, and it is emptied after the assistant message was added
RECURSIVE Concat(_)
Concat(seqs) == IF seqs = <<>> THEN <<>> ELSE seqs[1] \o Concat(Tail(seqs))
currentResponse == IF hs = "done" THEN <<>> ELSE Concat(tokens)

\* handleSend, lines 187-453: the user message is added to the session, the
\* fallback timer is set, and a text with plot dimensions starts the direct
\* generation
handleSend ==
  /\ hs = "idle"
  /\ sessionMessages' = Append(sessionMessages, userMessage)
  /\ watchdog' = IF WATCHDOG_ENABLED THEN "armed" ELSE "off"
  /\ normalized' = normalizeParams(userContent)
  /\ IF normalized'.matched
     THEN /\ directReqs' = Append(directReqs, DirectPayload(normalized', "constraint"))
          /\ hs' = "direct1"
     ELSE /\ hs' = "llm"
          /\ UNCHANGED directReqs
  /\ UNCHANGED <<config, store, pc, isLoading, error, turnVars, roundVars, stallTimer, aborted,
                 segments, calls, execVars, history, doneSeen, fallbackReqs, rooms, toasts,
                 wire, sent, sessionsRef>>

\* lines 1063-1085: the call of generateResponse(messages, onToken, tools, onToolCall)
Start ==
  /\ hs = "llm"
  /\ pc = "idle"
  /\ pc' = "loop"
  /\ isLoading' = TRUE
  /\ error' = ""
  /\ fullResponse' = <<>>
  /\ messages' = InputMessages
  /\ rollingMessages' = mapMessages(messages')
  /\ rounds' = 0
  /\ haveToolResults' = FALSE
  /\ lastToolResult' = NullResult
  /\ UNCHANGED <<config, store, outside, watchdog, rooms, toasts, doneSeen, roundVars, stallTimer, aborted, segments, calls, execVars,
                 history>>

\* a push that reaches the array of the caller as well
push_ontoCallerArray(msg) ==
  /\ rollingMessages' = Append(rollingMessages, msg)
  /\ messages' = Append(messages, Message(msg.role, msg.content, "now"))

\* lines 1081, 1325 and 1451: rollingMessages is an array of its own, made by
\* messages.map, so a push extends it and leaves the array of the caller alone
push(msg) ==
  /\ rollingMessages' = Append(rollingMessages, msg)
  /\ messages' = messages

\* lines 1556-1562: catch, setError, rethrow, finally
Throw(e) ==
  /\ pc' = "thrown"
  /\ error' = e
  /\ isLoading' = FALSE

\* the request body of a round (lines 1113-1145, 1471-1498)
Request(stream, disabled) ==
  [stream |-> stream,
   round |-> rounds + 1,
   tools |-> isOllama /\ ~disabled,
   tool_choice |-> IF ~isOllama THEN "" ELSE IF disabled THEN "none" ELSE "auto",
   messages |-> rollingMessages,
   afterToolCall |-> everDetected]

\* lines 1094-1147: loop test, tool offering, the streaming request is sent
SendRound ==
  /\ pc = "loop"
  /\ rounds < maxRounds
  /\ shouldDisableToolsThisRound' = (haveToolResults \/ forceDisableToolsDebug)
  /\ requests' = Append(requests, Request(TRUE, shouldDisableToolsThisRound'))
  /\ pc' = "fetch"
  /\ UNCHANGED <<config, store, outside, watchdog, rooms, toasts, doneSeen, isLoading, error, turnVars, encounteredToolCall,
                 streamedCharsThisRound, streamBuffer, stallTimer, aborted, segments,
                 calls, execVars, responses, backendReqs, tokens, notified,
                 chunksRead, detectedThisRound, toolMsgsThisRound, everDetected>>

\* line 1094: the round budget is used up
LoopExit ==
  /\ pc = "loop"
  /\ ~(rounds < maxRounds)
  /\ pc' = "post"
  /\ UNCHANGED <<config, store, outside, watchdog, rooms, toasts, doneSeen, isLoading, error, turnVars, roundVars, stallTimer, aborted,
                 segments, calls, execVars, history>>

HTTP_ERROR == "Server responded with 500"

\* a status check that lets a non-2xx answer through
ResponseOk_anyStatus(outcome) == outcome \in {"ok", HTTP_ERROR}

\* line 1149: response.ok
ResponseOk(outcome) == outcome = "ok"

\* lines 1110-1172: the answer to the streaming request
FetchResponse(outcome) ==
  /\ pc = "fetch"
  /\ responses' = Append(responses, outcome)
  /\ IF ResponseOk(outcome)
     THEN /\ pc' = "read"
          /\ encounteredToolCall' = FALSE
          /\ streamedCharsThisRound' = 0
          /\ streamBuffer' = <<>>
          /\ stallTimer' = TRUE
          /\ aborted' = FALSE
          /\ detectedThisRound' = 0
          /\ toolMsgsThisRound' = 0
          /\ doneSeen' = FALSE
          /\ UNCHANGED <<isLoading, error>>
     ELSE /\ Throw(outcome)
          /\ UNCHANGED <<encounteredToolCall, streamedCharsThisRound, streamBuffer,
                         stallTimer, aborted, detectedThisRound, toolMsgsThisRound,
                         doneSeen>>
  /\ UNCHANGED <<config, store, outside, watchdog, rooms, toasts, turnVars, shouldDisableToolsThisRound, segments, calls, execVars,
                 requests, backendReqs, tokens, notified, chunksRead,
                 everDetected>>

FetchOutcomes == {"ok", HTTP_ERROR, "No response body", "Failed to fetch"}

\* where the read loop continues once a record is dealt with
AfterRecord(segs) == IF segs = <<>> THEN "read" ELSE "lines"

\* lines 1165-1171: the stall timeout elapses while the task is suspended
AwaitPcs == {"read", "exec1", "exec2", "execjson"}

\* a timeout that fires without cancelling the request
StallTimeout_noAbort ==
  /\ stallTimer
  /\ pc \in AwaitPcs
  /\ stallTimer' = FALSE
  /\ UNCHANGED <<config, store, outside, watchdog, rooms, toasts, doneSeen, pc, isLoading, error, turnVars, roundVars, aborted, segments,
                 calls, execVars, history>>

StallTimeout ==
  /\ stallTimer
  /\ pc \in AwaitPcs
  /\ stallTimer' = FALSE
  /\ aborted' = TRUE
  /\ UNCHANGED <<config, store, outside, watchdog, rooms, toasts, doneSeen, pc, isLoading, error, turnVars, roundVars, segments, calls,
                 execVars, requests, responses, backendReqs, tokens, notified, chunksRead,
                 detectedThisRound, toolMsgsThisRound, everDetected>>

\* lines 1175-1185: reader.read() resolves with the bytes of a chunk
Receive(value) ==
  /\ pc = "read"
  /\ ~aborted
  /\ chunksRead < MaxChunks
  /\ chunksRead' = chunksRead + 1
  /\ stallTimer' = TRUE
  /\ LET chunk == decode(value)
         segs == split(streamBuffer \o chunk)
     IN /\ streamBuffer' = segs[Len(segs)]
        /\ segments' = SubSeq(segs, 1, Len(segs) - 1)
        /\ pc' = AfterRecord(segments')
  /\ UNCHANGED <<config, store, hs, caller, fallbackReqs, watchdog, rooms, toasts, doneSeen, isLoading, error, turnVars, shouldDisableToolsThisRound,
                 encounteredToolCall, streamedCharsThisRound, aborted, calls, execVars,
                 requests, responses, backendReqs, tokens, notified, detectedThisRound,
                 toolMsgsThisRound, everDetected>>

\* the endpoint sends any chunk of its repertoire
ReadChunk(chunk) == Receive(chunk) /\ UNCHANGED <<wire, sent>>

\* the endpoint sends the next n bytes of a given response body
Deliver(n) ==
  /\ n \in 1..Len(wire)
  /\ Receive(SubSeq(wire, 1, n))
  /\ wire' = SubSeq(wire, n + 1, Len(wire))
  /\ sent' = sent \o SubSeq(wire, 1, n)

\* line 1175: reader.read() rejects, because the request was aborted (line 1169)
\* or because the transport failed
ReadRejects(e) ==
  /\ pc = "read"
  /\ (e = "AbortError") = aborted
  /\ Throw(e)
  /\ UNCHANGED <<config, store, outside, watchdog, rooms, toasts, doneSeen, turnVars, roundVars, stallTimer, aborted, segments, calls,
                 execVars, history>>

ReadErrors == {"AbortError", "network error"}

\* the parsed record of a line and the text it carries in the read loop
\* (lines 1188-1215 and 1345-1350)
ParseLine(line) ==
  IF isOllama THEN JSONParse(line)
  ELSE IF line # <<>> /\ Head(line) = DATA_PREFIX /\ Tail(line) # <<DONE_SENTINEL>>
       THEN JSONParse(Tail(line))
       ELSE [ok |-> FALSE, value |-> NoRecord]

LineContent(rec) == IF isOllama THEN rec.content ELSE rec.delta

\* a decoder that gives up the rest of the chunk at a line it cannot parse
ProcessLine_stopsAtBadLine ==
  /\ pc = "lines"
  /\ segments # <<>>
  /\ LET p == ParseLine(Head(segments))
         content == IF p.ok THEN LineContent(p.value) ELSE <<>>
         toolCalls == IF p.ok /\ isOllama THEN p.value.tool_calls ELSE <<>>
     IN /\ segments' = IF p.ok THEN Tail(segments) ELSE <<>>
        /\ fullResponse' = fullResponse \o content
        /\ onToken(content)
        /\ streamedCharsThisRound' = streamedCharsThisRound + Len(content)
        /\ encounteredToolCall' = (encounteredToolCall \/ toolCalls # <<>>)
        /\ detectedThisRound' = detectedThisRound + Len(toolCalls)
        /\ calls' = toolCalls
        /\ pc' = IF toolCalls # <<>> THEN "calls" ELSE AfterRecord(segments')
  /\ doneSeen' = (doneSeen \/ (~isOllama /\ Head(segments) = <<DATA_PREFIX, DONE_SENTINEL>>))
  /\ UNCHANGED <<config, store, outside, rooms, toasts, isLoading, error, rollingMessages, messages, rounds, haveToolResults,
                 lastToolResult, shouldDisableToolsThisRound, streamBuffer, stallTimer,
                 aborted, execVars, requests, responses, backendReqs, notified, chunksRead,
                 toolMsgsThisRound, everDetected>>

\* lines 1186-1243 and 1344-1362: one line of the chunk
ProcessLine ==
  /\ pc = "lines"
  /\ segments # <<>>
  /\ LET p == ParseLine(Head(segments))
         content == IF p.ok THEN LineContent(p.value) ELSE <<>>
         toolCalls == IF p.ok /\ isOllama THEN p.value.tool_calls ELSE <<>>
     IN /\ segments' = Tail(segments)
        /\ fullResponse' = fullResponse \o content
        /\ onToken(content)
        /\ streamedCharsThisRound' = streamedCharsThisRound + Len(content)
        /\ encounteredToolCall' = (encounteredToolCall \/ toolCalls # <<>>)
        /\ detectedThisRound' = detectedThisRound + Len(toolCalls)
        /\ calls' = toolCalls
        /\ pc' = IF toolCalls # <<>> THEN "calls" ELSE AfterRecord(segments')
  /\ doneSeen' = (doneSeen \/ (~isOllama /\ Head(segments) = <<DATA_PREFIX, DONE_SENTINEL>>))
  /\ UNCHANGED <<config, store, outside, rooms, toasts, isLoading, error, rollingMessages, messages, rounds, haveToolResults,
                 lastToolResult, shouldDisableToolsThisRound, streamBuffer, stallTimer,
                 aborted, execVars, requests, responses, backendReqs, notified, chunksRead,
                 toolMsgsThisRound, everDetected>>

\* a tool result that is not fed back into the conversation
FinishCall_keepsMessages(result) ==
  /\ onToolCall(Head(calls), result)
  /\ rollingMessages' = rollingMessages
  /\ messages' = messages
  /\ haveToolResults' = TRUE
  /\ lastToolResult' = result
  /\ toolMsgsThisRound' = toolMsgsThisRound + 1
  /\ calls' = Tail(calls)
  /\ pc' = IF calls' # <<>> THEN "calls" ELSE AfterRecord(segments)

\* lines 1320-1327: the result of a tool call is delivered and appended
FinishCall(result) ==
  /\ onToolCall(Head(calls), result)
  /\ push(ToolMsg(Head(calls), result))
  /\ haveToolResults' = TRUE
  /\ lastToolResult' = result
  /\ toolMsgsThisRound' = toolMsgsThisRound + 1
  /\ calls' = Tail(calls)
  /\ pc' = IF calls' # <<>> THEN "calls" ELSE AfterRecord(segments)

\* lines 1328-1331: the tool call is given up
DropCall ==
  /\ calls' = Tail(calls)
  /\ pc' = IF calls' # <<>> THEN "calls" ELSE AfterRecord(segments)
  /\ UNCHANGED <<rollingMessages, messages, haveToolResults, lastToolResult, notified,
                 toolMsgsThisRound, rooms, toasts, watchdog>>

\* line 1263: toolCall.function.name raises a TypeError when 'function' is absent
NameThrows(tc) == tc.shape # "nested"

\* lines 1243-1299: one tool call of the record, up to the first backend request
HandleCall ==
  /\ pc = "calls"
  /\ calls # <<>>
  /\ LET tc == Head(calls)
         r == ResolveArgs(tc)
     IN IF ~r.ok \/ NameThrows(tc)
        THEN DropCall /\ UNCHANGED <<args, backendReqs>>
        ELSE IF tc.name = TOOL_NAME
        THEN /\ args' = r.value
             /\ backendReqs' = Append(backendReqs, payload(r.value, "constraint"))
             /\ pc' = "exec1"
             /\ UNCHANGED <<calls, rollingMessages, messages, haveToolResults, lastToolResult,
                            notified, toolMsgsThisRound, rooms, toasts, watchdog>>
        ELSE FinishCall(NoHandler) /\ UNCHANGED <<args, backendReqs>>
  /\ UNCHANGED <<config, store, outside, doneSeen, isLoading, error, fullResponse, rounds, roundVars, stallTimer,
                 aborted, segments, genRes, requests, responses, tokens, chunksRead,
                 detectedThisRound, everDetected>>

ExecFrame == <<config, store, outside, doneSeen, isLoading, error, fullResponse, rounds, roundVars, stallTimer,
               aborted, segments, requests, responses, tokens, chunksRead,
               detectedThisRound, everDetected>>

\* lines 1295-1310: the answer of the constraint solver; a non-2xx answer is
\* followed by the request to the graph solver
Exec1Response(outcome) ==
  /\ pc = "exec1"
  /\ CASE outcome = "ok" ->
            /\ genRes' = [ok |-> TRUE, solver |-> "constraint"]
            /\ pc' = "execjson"
            /\ UNCHANGED <<args, backendReqs, calls, rollingMessages, messages, haveToolResults,
                           lastToolResult, notified, toolMsgsThisRound, rooms, toasts, watchdog>>
       [] outcome = "notok" ->
            /\ backendReqs' = Append(backendReqs, payload(args, "graph"))
            /\ pc' = "exec2"
            /\ UNCHANGED <<args, genRes, calls, rollingMessages, messages, haveToolResults,
                           lastToolResult, notified, toolMsgsThisRound, rooms, toasts, watchdog>>
       [] OTHER ->
            /\ FinishCall(ExecError)
            /\ UNCHANGED <<args, genRes, backendReqs>>
  /\ UNCHANGED ExecFrame

\* lines 1305-1310: the answer of the graph solver
Exec2Response(outcome) ==
  /\ pc = "exec2"
  /\ CASE outcome \in {"ok", "notok"} ->
            /\ genRes' = [ok |-> outcome = "ok", solver |-> "graph"]
            /\ pc' = "execjson"
            /\ UNCHANGED <<args, calls, rollingMessages, messages, haveToolResults, lastToolResult,
                           notified, toolMsgsThisRound, rooms, toasts, watchdog>>
       [] OTHER ->
            /\ FinishCall(ExecError)
            /\ UNCHANGED <<args, genRes>>
  /\ UNCHANGED <<backendReqs>>
  /\ UNCHANGED ExecFrame

BackendOutcomes == {"ok", "notok", "throw"}

\* a decode failure that leaves generateResponse as an exception
ExecJson_decodeFailureThrows(decodes) ==
  /\ pc = "execjson"
  /\ IF decodes
     THEN /\ FinishCall(IF genRes.ok THEN JsonOk(genRes.solver) ELSE ErrBody)
          /\ UNCHANGED <<isLoading, error>>
     ELSE /\ Throw("Unexpected token")
          /\ UNCHANGED <<calls, rollingMessages, messages, haveToolResults, lastToolResult, notified,
                         toolMsgsThisRound, rooms, toasts, watchdog>>
  /\ UNCHANGED <<args, genRes, backendReqs>>
  /\ UNCHANGED <<config, store, outside, doneSeen, fullResponse, rounds, roundVars, stallTimer,
                 aborted, segments, requests, responses, tokens, chunksRead,
                 detectedThisRound, everDetected>>

\* lines 1311-1317: genRes.json() yields the body, or fails
ExecJson(decodes) ==
  /\ pc = "execjson"
  /\ FinishCall(IF ~decodes THEN ExecError
                ELSE IF genRes.ok THEN JsonOk(genRes.solver) ELSE ErrBody)
  /\ UNCHANGED <<args, genRes, backendReqs>>
  /\ UNCHANGED ExecFrame

\* the text a residual record carries (lines 1371-1377 and 1428)
ResidualContent(rec) ==
  IF isOllama THEN (IF rec.content # <<>> THEN rec.content ELSE rec.thinking)
  ELSE (IF rec.delta # <<>> THEN rec.delta ELSE rec.choice_message)

\* lines 1176 and 1365-1446: the stream ends; the buffered rest is parsed as a
\* final record and the stall timer is cleared
ReadDone ==
  /\ pc = "read"
  /\ ~aborted
  /\ LET p == IF trim(streamBuffer) = <<>> THEN [ok |-> FALSE, value |-> NoRecord]
              ELSE ParseLine(streamBuffer)
         content == IF p.ok THEN ResidualContent(p.value) ELSE <<>>
         toolCallsResidual == IF p.ok /\ isOllama THEN p.value.tool_calls ELSE <<>>
     IN /\ fullResponse' = fullResponse \o content
        /\ onToken(content)
        /\ streamedCharsThisRound' = streamedCharsThisRound + Len(content)
        /\ encounteredToolCall' = (encounteredToolCall \/ toolCallsResidual # <<>>)
        /\ detectedThisRound' = detectedThisRound + Len(toolCallsResidual)
  /\ stallTimer' = FALSE
  /\ pc' = "round_end"
  /\ UNCHANGED <<config, store, outside, rooms, toasts, doneSeen, isLoading, error, rollingMessages, messages, rounds, haveToolResults,
                 lastToolResult, shouldDisableToolsThisRound, streamBuffer, aborted,
                 segments, calls, execVars, requests, responses, backendReqs, notified,
                 chunksRead, toolMsgsThisRound, everDetected>>

\* a retry that does not look at the streamed characters
RoundOutcome_retryAlways(enc, streamed) == IF enc THEN "continue" ELSE "retry"

\* a loop that goes on after a round of plain text
RoundOutcome_neverBreak(enc, streamed) ==
  IF enc \/ streamed > 0 THEN "continue" ELSE "retry"

\* lines 1449, 1466, 1529: continue, non-stream fallback then break, or break
RoundOutcome(enc, streamed) ==
  IF enc THEN "continue" ELSE IF streamed = 0 THEN "retry" ELSE "break"

\* lines 1448-1499 and 1527-1529: how the round ends
RoundEnd ==
  /\ pc = "round_end"
  /\ IF RoundOutcome(encounteredToolCall, streamedCharsThisRound) = "continue"
     THEN /\ push(SteeringMsg)
          /\ rounds' = rounds + 1
          /\ everDetected' = TRUE
          /\ pc' = "loop"
          /\ UNCHANGED requests
     ELSE IF RoundOutcome(encounteredToolCall, streamedCharsThisRound) = "retry"
     THEN /\ requests' = Append(requests, Request(FALSE, shouldDisableToolsThisRound))
          /\ pc' = "flat"
          /\ UNCHANGED <<rollingMessages, messages, rounds, everDetected>>
     ELSE /\ pc' = "post"
          /\ UNCHANGED <<rollingMessages, messages, rounds, everDetected, requests>>
  /\ UNCHANGED <<config, store, outside, watchdog, rooms, toasts, doneSeen, isLoading, error, fullResponse, haveToolResults, lastToolResult,
                 roundVars, stallTimer, aborted, segments, calls, execVars, responses, backendReqs, tokens, notified, chunksRead, detectedThisRound,
                 toolMsgsThisRound>>

\* the text of the non-streaming answer (lines 1503-1509 and 1515)
FlatContent(json) ==
  IF isOllama THEN (IF json.content # <<>> THEN json.content ELSE json.thinking)
  ELSE json.choice_message

\* lines 1468-1526: the answer to the non-streaming request
FlatResponse(outcome, body) ==
  /\ pc = "flat"
  /\ responses' = Append(responses, outcome)
  /\ CASE outcome = "ok" ->
            LET content == FlatContent(Catalogue[body])
            IN /\ fullResponse' = fullResponse \o content
               /\ onToken(content)
               /\ pc' = "post"
               /\ UNCHANGED <<isLoading, error>>
       [] outcome = "notok" ->
            /\ pc' = "post"
            /\ UNCHANGED <<isLoading, error, fullResponse, tokens, watchdog>>
       [] OTHER ->
            /\ Throw(outcome)
            /\ UNCHANGED <<fullResponse, tokens, watchdog>>
  /\ UNCHANGED <<config, store, outside, rooms, toasts, doneSeen, rollingMessages, messages, rounds, haveToolResults, lastToolResult,
                 roundVars, stallTimer, aborted, segments, calls, execVars, requests, backendReqs, notified, chunksRead, detectedThisRound,
                 toolMsgsThisRound, everDetected>>

FlatOutcomes == {"ok", "notok", "Failed to fetch", "Unexpected token"}

\* a post-loop step that returns the accumulated text as it is
FinalText_noSummary == fullResponse

\* lines 1532-1540: the synthesized summary
FinalText ==
  IF fullResponse = <<>> /\ haveToolResults /\ lastToolResult # NullResult
  THEN Summary(lastToolResult) ELSE fullResponse

\* lines 1532-1563: the text is completed, generateResponse leaves the loop
\* and returns
Return ==
  /\ pc = "post"
  /\ fullResponse' = FinalText
  /\ pc' = "returned"
  /\ isLoading' = FALSE
  /\ UNCHANGED <<config, store, outside, watchdog, rooms, toasts, doneSeen, error, rollingMessages, messages, rounds, haveToolResults, lastToolResult,
                 roundVars, stallTimer, aborted, segments, calls, execVars, history>>

\* lines 1549-1555: the value generateResponse returns
returned == IF pc = "returned" THEN cleanThinkingContent(fullResponse) ELSE <<>>

\* lines 555-571: generateResponse has returned to handleSend: the fallback
\* timer is cleared and the assistant message is added to the session
AfterCompletion ==
  /\ hs = "llm"
  /\ pc = "returned"
  /\ hs' = "done"
  /\ watchdog' = clearTimeout(watchdog)
  /\ sessionMessages' = Append(sessionMessages, Message("assistant", returned, "now"))
  /\ UNCHANGED <<config, store, pc, isLoading, error, turnVars, roundVars, stallTimer, aborted,
                 segments, calls, execVars, history, doneSeen, fallbackReqs, rooms, toasts,
                 wire, sent, normalized, sessionsRef, directReqs>>

\* a catch that tells the user nothing
handleSendCatch_silent ==
  /\ hs = "llm"
  /\ pc = "thrown"
  /\ hs' = "failed"
  /\ UNCHANGED <<config, store, pc, isLoading, error, turnVars, roundVars, stallTimer, aborted,
                 segments, calls, execVars, history, doneSeen, fallbackReqs, rooms, toasts,
                 watchdog, wire, sent, caller>>

\* lines 671-678: generateResponse has thrown: the catch of handleSend
handleSendCatch ==
  /\ hs = "llm"
  /\ pc = "thrown"
  /\ hs' = "failed"
  /\ toasts' = Append(toasts, Toast("Error", "Failed to generate response. Please try again.",
                                    "destructive"))
  /\ UNCHANGED <<config, store, pc, isLoading, error, turnVars, roundVars, stallTimer, aborted,
                 segments, calls, execVars, history, doneSeen, fallbackReqs, rooms, watchdog,
                 wire, sent, caller>>

Next ==
  \/ handleSend
  \/ Start
  \/ SendRound
  \/ LoopExit
  \/ \E o \in FetchOutcomes : FetchResponse(o)
  \/ StallTimeout
  \/ \E c \in (IF isOllama THEN ChunksOllama ELSE ChunksOpenAI) : ReadChunk(c)
  \/ \E e \in ReadErrors : ReadRejects(e)
  \/ ProcessLine
  \/ HandleCall
  \/ \E o \in BackendOutcomes : Exec1Response(o)
  \/ \E o \in BackendOutcomes : Exec2Response(o)
  \/ \E d \in BOOLEAN : ExecJson(d)
  \/ ReadDone
  \/ RoundEnd
  \/ \E o \in FlatOutcomes, b \in FlatBodies : FlatResponse(o, b)
  \/ Return
  \/ AfterCompletion

Spec == Init /\ [][Next]_vars

----------------------------------------------------------------------------
(* handleSend: the fallback timer *)

\* handleSend is suspended in an await, or has ended, so that a timer callback
\* or the continuation of another task can run
DirectPcs == {"direct1", "direct2", "directjson"}
Suspended ==
  \/ hs \in DirectPcs
  \/ hs = "llm" /\ pc \in AwaitPcs \cup {"fetch", "flat"}
  \/ hs \in {"done", "failed"}

\* lines 454-465 and 493-495: the answer to the first request of the direct
\* generation
DirectFetch1(outcome) ==
  /\ hs = "direct1"
  /\ CASE outcome = "ok" ->
            /\ hs' = "directjson"
            /\ UNCHANGED directReqs
       [] outcome = "notok" ->
            /\ hs' = "direct2"
            /\ directReqs' = Append(directReqs, DirectPayload(normalized, "graph"))
       [] OTHER ->
            /\ hs' = "llm"
            /\ UNCHANGED directReqs
  /\ UNCHANGED <<config, store, pc, isLoading, error, turnVars, roundVars, stallTimer, aborted,
                 segments, calls, execVars, history, doneSeen, fallbackReqs, rooms, toasts,
                 watchdog, wire, sent, normalized, sessionMessages, sessionsRef>>

\* lines 458-465 and 493-495: the answer to its second request
DirectFetch2(outcome) ==
  /\ hs = "direct2"
  /\ hs' = IF outcome \in {"ok", "notok"} THEN "directjson" ELSE "llm"
  /\ UNCHANGED <<config, store, pc, isLoading, error, turnVars, roundVars, stallTimer, aborted,
                 segments, calls, execVars, history, doneSeen, fallbackReqs, rooms, toasts,
                 watchdog, wire, sent, caller>>

\* lines 466-496: the body of the answer; positioned rooms replace the layout
DirectJson(body) ==
  /\ hs = "directjson"
  /\ hs' = "llm"
  /\ IF body = "rooms"
     THEN /\ rooms' = Len(normalized.rooms)
          /\ toasts' = Append(toasts, Toast("Floor Plan Generated", "from normalized input",
                                            "default"))
     ELSE UNCHANGED <<rooms, toasts>>
  /\ UNCHANGED <<config, store, pc, isLoading, error, turnVars, roundVars, stallTimer, aborted,
                 segments, calls, execVars, history, doneSeen, fallbackReqs,
                 watchdog, wire, sent, caller>>

\* line 860 and lines 187-254: the chat input is enabled while isLoading is
\* false, so the user sends one more text and handleSend is called again; the
\* second call is followed up to its addMessage
SecondMessage == Message("user", <<"again">>, "later")
handleSendAgain ==
  /\ ~isLoading
  /\ hs \in DirectPcs \cup {"done", "failed"}
  /\ \A i \in DOMAIN sessionMessages : sessionMessages[i] # SecondMessage
  /\ sessionMessages' = Append(sessionMessages, SecondMessage)
  /\ UNCHANGED <<config, store, pc, isLoading, error, turnVars, roundVars, stallTimer, aborted,
                 segments, calls, execVars, history, doneSeen, fallbackReqs, rooms, toasts,
                 watchdog, wire, sent, hs, normalized, sessionsRef, directReqs>>

\* lines 177-181: after a render the effect stores the sessions in the ref
\* (what the ref shows is read once, at line 498)
Render ==
  /\ hs \in DirectPcs
  /\ sessionsRef # sessionMessages
  /\ sessionsRef' = sessionMessages
  /\ UNCHANGED <<config, store, pc, isLoading, error, turnVars, roundVars, stallTimer, aborted,
                 segments, calls, execVars, history, doneSeen, fallbackReqs, rooms, toasts,
                 watchdog, wire, sent, hs, normalized, sessionMessages, directReqs>>

\* lines 308-313: the heuristics of the fallback: /(\d)\s*bhk/ (default 2), an
\* area in 'sq ft' or 'ft^2' (default plotWidth * plotLength), 'N ft width'
\* (default plotWidth) and the facing; the plot of the state is 30 by 30
heuristics(text) ==
  LET bhks == {i \in DOMAIN text : isNumber(text[i]) /\ At(text, i + 1) = "bhk"}
      areas == {i \in DOMAIN text : isNumber(text[i]) /\ At(text, i + 1) \in {"sq ft", "ft^2"}}
      widths == {i \in DOMAIN text : /\ isNumber(text[i])
                                     /\ At(text, i + 1) = "ft"
                                     /\ At(text, i + 2) = "width"}
      facing == {i \in DOMAIN text : text[i] \in {"west", "east"} /\ At(text, i + 1) = "facing"}
      west == {i \in facing : text[i] = "west"}
  IN [bhk |-> IF bhks = {} THEN 2 ELSE parseFloat(text[Minimum(bhks)]) % 10,
      area |-> IF areas = {} THEN 30 * 30 ELSE parseFloat(text[Minimum(areas)]),
      width |-> IF widths = {} THEN 30 ELSE parseFloat(text[Minimum(widths)]),
      facing |-> IF west # {} THEN "west" ELSE IF facing # {} THEN "east" ELSE ""]

\* a request that is the same for every user text
FallbackPayload_sameForAnyText(text, solver) ==
  [rooms |-> << <<"living">>, <<"kitchen">>, <<"bed", 1>>, <<"bed", 2>>, <<"bath", 1>> >>,
   plotWidth |-> 100 * 30, plotLength |-> 100 * 30, plotShape |-> "rectangular",
   solver_type |-> solver, house_facing |-> ""]

\* lines 314-336: the request the fallback derives from the user text; plot
\* width and plot length, Math.max(10, Math.round((area / width) * 100) / 100),
\* are in hundredths
FallbackPayload(text, solver) ==
  LET h == heuristics(text)
      bathrooms == Maximum({1, (h.bhk + 1) \div 2})
      length == Maximum({1000, (200 * h.area + h.width) \div (2 * h.width)})
  IN [rooms |-> << <<"living">>, <<"kitchen">> >>
                \o [i \in 1..h.bhk |-> <<"bed", i>>]
                \o [i \in 1..bathrooms |-> <<"bath", i>>],
      plotWidth |-> 100 * h.width, plotLength |-> length, plotShape |-> "rectangular",
      solver_type |-> solver, house_facing |-> h.facing]

WatchdogFrame == <<config, store, pc, isLoading, error, turnVars, roundVars, stallTimer, aborted,
                   segments, calls, execVars, history, doneSeen, hs, caller, wire, sent>>

\* lines 303-342: the fallback budget elapses
WatchdogFires ==
  /\ watchdog = "armed"
  /\ Suspended
  /\ IF toolCallHandled \/ toolCallDetected
     THEN /\ watchdog' = "done"
          /\ UNCHANGED fallbackReqs
     ELSE /\ watchdog' = "fetch1"
          /\ fallbackReqs' = Append(fallbackReqs, FallbackPayload(userContent, "graph"))
  /\ UNCHANGED <<WatchdogFrame, rooms, toasts>>

\* lines 338-350 and 374-376: the answer to the first request of the fallback
WatchdogFetch1(outcome) ==
  /\ watchdog = "fetch1"
  /\ Suspended
  /\ CASE outcome = "ok" ->
            /\ watchdog' = "json_ok"
            /\ UNCHANGED fallbackReqs
       [] outcome = "notok" ->
            /\ watchdog' = "fetch2"
            /\ fallbackReqs' = Append(fallbackReqs,
                                      [fallbackReqs[1] EXCEPT !.solver_type = "constraint"])
       [] OTHER ->
            /\ watchdog' = "done"
            /\ UNCHANGED fallbackReqs
  /\ UNCHANGED <<WatchdogFrame, rooms, toasts>>

\* lines 345-350 and 374-376: the answer to the second request of the fallback
WatchdogFetch2(outcome) ==
  /\ watchdog = "fetch2"
  /\ Suspended
  /\ watchdog' = (CASE outcome = "ok" -> "json_ok"
                   [] outcome = "notok" -> "json_notok"
                   [] OTHER -> "done")
  /\ UNCHANGED <<WatchdogFrame, rooms, toasts, fallbackReqs>>

\* lines 351-376: the body of the answer: with rooms in a 2xx answer the
\* layout is replaced; a body that cannot be decoded is logged only
WatchdogJson(body) ==
  /\ watchdog \in {"json_ok", "json_notok"}
  /\ Suspended
  /\ watchdog' = "done"
  /\ CASE body = "throw" ->
            UNCHANGED <<rooms, toasts>>
       [] body = "rooms" /\ watchdog = "json_ok" ->
            /\ rooms' = Len(fallbackReqs[1].rooms)
            /\ toasts' = Append(toasts, Toast("Fallback floor plan generated",
                                              "rooms for plot", "default"))
       [] OTHER ->
            /\ toasts' = Append(toasts, Toast("Generation failed",
                                              "Fallback generation failed", "destructive"))
            /\ UNCHANGED rooms
  /\ UNCHANGED <<WatchdogFrame, fallbackReqs>>

WatchdogBodies == {"rooms", "norooms", "throw"}

\* what the endpoint sends in a turn with the fallback enabled
TurnChunks ==
  IF isOllama THEN { Line(n) \o <<NL>> : n \in {"rT", "rC", "rM"} }
  ELSE { <<DATA_PREFIX>> \o Line("rE") \o <<NL>> }

\* A turn with the fallback enabled and the debug switch off, on a transport
\* without stalls; the backend answers the tool executor with 2xx or not at all
TurnInit ==
  /\ Constructed
  /\ ~forceDisableToolsDebug
  /\ WATCHDOG_ENABLED = TRUE
  /\ userContent = PlainText
  /\ wire = <<>>

TurnNext ==
  \/ handleSend
  \/ Start
  \/ SendRound
  \/ LoopExit
  \/ \E o \in {"ok", HTTP_ERROR} : FetchResponse(o)
  \/ \E c \in TurnChunks : ReadChunk(c)
  \/ ProcessLine
  \/ HandleCall
  \/ \E o \in {"ok", "throw"} : Exec1Response(o)
  \/ \E d \in BOOLEAN : ExecJson(d)
  \/ ReadDone
  \/ RoundEnd
  \/ \E o \in {"ok", "notok"} : FlatResponse(o, "rT")
  \/ Return
  \/ AfterCompletion
  \/ handleSendCatch
  \/ WatchdogFires
  \/ \E o \in BackendOutcomes : WatchdogFetch1(o)
  \/ \E o \in BackendOutcomes : WatchdogFetch2(o)
  \/ \E b \in WatchdogBodies : WatchdogJson(b)

TurnSpec == TurnInit /\ [][TurnNext]_vars

\* A turn for any of the user texts, with or without the fallback, on an
\* endpoint that streams nothing: the round ends empty and the non-streaming
\* request is answered with a text or with an error
SendInit ==
  /\ Constructed
  /\ ~forceDisableToolsDebug
  /\ WATCHDOG_ENABLED \in BOOLEAN
  /\ userContent \in UserTexts
  /\ wire = <<>>

SendNext ==
  \/ handleSend
  \/ \E o \in BackendOutcomes : DirectFetch1(o)
  \/ \E o \in BackendOutcomes : DirectFetch2(o)
  \/ \E b \in WatchdogBodies : DirectJson(b)
  \/ Render
  \/ handleSendAgain
  \/ Start
  \/ SendRound
  \/ \E o \in {"ok", HTTP_ERROR} : FetchResponse(o)
  \/ ReadDone
  \/ RoundEnd
  \/ \E o \in {"ok", "notok"} : FlatResponse(o, "rT")
  \/ Return
  \/ AfterCompletion
  \/ handleSendCatch
  \/ WatchdogFires
  \/ \E o \in BackendOutcomes : WatchdogFetch1(o)
  \/ \E o \in BackendOutcomes : WatchdogFetch2(o)
  \/ \E b \in WatchdogBodies : WatchdogJson(b)

SendSpec == SendInit /\ [][SendNext]_vars

\* The first round of a turn whose response body is one given byte stream,
\* cut into chunks at arbitrary places (the connection may also end early)
StreamInit ==
  /\ Constructed
  /\ WATCHDOG_ENABLED = FALSE
  /\ userContent = PlainText
  /\ wire \in (IF isOllama THEN StreamsOllama ELSE StreamsOpenAI)

StreamNext ==
  \/ handleSend
  \/ Start
  \/ SendRound
  \/ FetchResponse("ok")
  \/ \E n \in 1..Len(wire) : Deliver(n)
  \/ ProcessLine
  \/ HandleCall
  \/ \E o \in BackendOutcomes : Exec1Response(o)
  \/ \E o \in BackendOutcomes : Exec2Response(o)
  \/ \E d \in BOOLEAN : ExecJson(d)
  \/ ReadDone

StreamSpec == StreamInit /\ [][StreamNext]_vars

\* answers made of tagged reasoning spans, followed or not by a plain answer
Span(c) == <<THINK_OPEN, c, THINK_CLOSE>>
RECURSIVE SpanRuns(_)
SpanRuns(n) ==
  IF n = 0 THEN {<<>>}
  ELSE {Span(c) \o r : c \in {"a", "Okay,", SP}, r \in SpanRuns(n - 1)}
TaggedAnswers ==
  {r \o a : r \in UNION {SpanRuns(n) : n \in 1..MaxSpans}, a \in {<<>>, <<"a">>}}

\* the answers the sanitizer is given
Answers == UNION { [1..n -> AnswerChars] : n \in 1..MaxText } \cup TaggedAnswers

\* A turn whose one round streams one record, received in one chunk, that
\* carries any answer of the model
AnswerInit ==
  /\ Constructed
  /\ ~forceDisableToolsDebug
  /\ WATCHDOG_ENABLED = FALSE
  /\ userContent = PlainText
  /\ wire \in { (IF isOllama THEN TextLine(CONTENT_KEY, t)
                   ELSE <<DATA_PREFIX>> \o TextLine(DELTA_KEY, t)) \o <<NL>> : t \in Answers }

AnswerNext ==
  \/ handleSend
  \/ Start
  \/ SendRound
  \/ FetchResponse("ok")
  \/ Deliver(Len(wire))
  \/ ProcessLine
  \/ ReadDone
  \/ RoundEnd
  \/ Return
  \/ AfterCompletion

AnswerSpec == AnswerInit /\ [][AnswerNext]_vars

\* lines 934-942: the hook is mounted on a key that holds nothing, a stored
\* value, or a string that is not JSON
load(text) ==
  IF text = NoItem THEN initialValue
  ELSE IF JSONParseItem(text).ok THEN JSONParseItem(text).value ELSE initialValue

\* lines 950-967: setValue(value) with a direct value or a function updater;
\* localStorage.setItem stores the value or throws (quota exceeded, storage
\* denied), and the catch only logs
setValue(isFunction, value, stored) ==
  LET fresh == IF item # NoItem THEN JSONParseItem(item)
               ELSE [ok |-> TRUE, value |-> storedValueRef]
      currentValue == IF isFunction THEN fresh.value ELSE storedValueRef
      valueToStore == IF isFunction THEN Apply(value, currentValue) ELSE value
  IN /\ IF isFunction /\ ~fresh.ok
        THEN UNCHANGED store
        ELSE /\ storedValue' = valueToStore
             /\ storedValueRef' = valueToStore
             /\ item' = IF stored THEN JSONStringify(valueToStore) ELSE item
     /\ UNCHANGED <<config, pc, isLoading, error, turnVars, roundVars, stallTimer, aborted,
                    segments, calls, execVars, history, doneSeen, fallbackReqs, rooms, toasts,
                    watchdog, wire, sent, hs, caller>>

StorageInit ==
  /\ Mounted
  /\ WATCHDOG_ENABLED = FALSE
  /\ userContent = PlainText
  /\ wire = <<>>
  /\ item \in {NoItem, CorruptItem} \cup {JSONStringify(v) : v \in Values}
  /\ storedValue = load(item)
  /\ storedValueRef = storedValue

StorageNext ==
  \/ \E v \in Values, stored \in BOOLEAN : setValue(FALSE, v, stored)
  \/ \E f \in Updaters, stored \in BOOLEAN : setValue(TRUE, f, stored)

StorageSpec == StorageInit /\ [][StorageNext]_vars

\* the task runs on when it is not suspended, every network call completes,
\* an armed timer fires, and a read on an aborted request rejects; nothing
\* obliges the endpoint to send a chunk or to end the stream
FairSpec ==
  /\ Spec
  /\ WF_vars(handleSend \/ Start \/ SendRound \/ LoopExit \/ ProcessLine \/ HandleCall
             \/ RoundEnd \/ Return)
  /\ WF_vars(\E o \in FetchOutcomes : FetchResponse(o))
  /\ WF_vars(\E o \in BackendOutcomes : Exec1Response(o))
  /\ WF_vars(\E o \in BackendOutcomes : Exec2Response(o))
  /\ WF_vars(\E d \in BOOLEAN : ExecJson(d))
  /\ WF_vars(\E o \in FlatOutcomes, b \in FlatBodies : FlatResponse(o, b))
  /\ WF_vars(StallTimeout)
  /\ WF_vars(ReadRejects("AbortError"))

----------------------------------------------------------------------------
(* Properties *)

StreamRequests == {i \in DOMAIN requests : requests[i].stream}
FlatRequests == {i \in DOMAIN requests : ~requests[i].stream}
RoundsRun == Cardinality(StreamRequests)
Finished == pc \in {"returned", "thrown"}

\* C1: a turn sends at most 3 streaming round requests; when the third round
\* also contains a tool call the loop still ends and the turn returns, with no
\* error raised
C1_AtMostThreeRounds ==
  /\ [](RoundsRun <= 3)
  /\ [][(pc = "round_end" /\ detectedThisRound > 0 /\ RoundsRun = 3) => pc' = "loop"]_vars
  /\ [][(pc = "loop" /\ RoundsRun = 3) => pc' = "post"]_vars
  /\ [][pc = "post" => (pc' = "returned" /\ error' = "")]_vars

C1_ThirdRoundWithToolCallReturned ==
  pc = "returned" /\ RoundsRun = 3 /\ detectedThisRound > 0

\* C2 (as claimed): at most one round of a turn offers tools, and every round
\* started after a round in which a tool call was detected is sent with tools
\* disabled and tool choice 'none'
C2_OneToolOfferingRound ==
  /\ Cardinality({i \in StreamRequests : requests[i].tools}) <= 1
  /\ \A i \in StreamRequests :
       requests[i].afterToolCall => (~requests[i].tools /\ requests[i].tool_choice # "auto")

\* C3 (as claimed): whenever generateResponse returns normally the returned
\* text is not empty
C3_ReturnedTextNonEmpty == pc = "returned" => returned # <<>>

\* C4 (as claimed): a stall cancels the request and the round goes on as if
\* the stream had ended; generateResponse does not throw because of the stall
C4_StallDoesNotThrow == aborted => pc # "thrown"

\* C5 (as claimed): a non-2xx status on the streaming request of a round does
\* not fail the turn
C5_HttpErrorDoesNotFailTurn ==
  \A i \in StreamRequests \cap DOMAIN responses :
    responses[i] = HTTP_ERROR => pc # "thrown"

\* C5 (amended): a non-2xx status on the streaming request of a round fails
\* the turn at once, with that status as the error and no retry or further
\* request; only a non-2xx status of the non-streaming retry is tolerated
C5_HttpErrorFailsTurn ==
  \A i \in DOMAIN responses :
    /\ (requests[i].stream /\ responses[i] = HTTP_ERROR) =>
         (i = Len(requests) /\ pc = "thrown" /\ error = HTTP_ERROR /\ returned = <<>>)
    /\ (~requests[i].stream /\ responses[i] = "notok") =>
         (i = Len(requests) /\ pc \in {"post", "returned"} /\ error = "")

C5_HttpErrorInSecondRound ==
  /\ pc = "thrown" /\ error = HTTP_ERROR
  /\ Len(requests) = 2 /\ requests[2].stream /\ responses[2] = HTTP_ERROR

\* C6: a round whose stream ends with no streamed character and no tool call
\* sends exactly one non-streaming request with the round's message list
\* before it concludes; any other round sends none
C6_EmptyRoundRetriesOnce ==
  /\ [](\A i \in FlatRequests :
          /\ i > 1
          /\ requests[i-1].stream
          /\ requests[i-1].round = requests[i].round
          /\ requests[i-1].messages = requests[i].messages)
  /\ [][pc = "round_end" =>
          (IF streamedCharsThisRound = 0 /\ detectedThisRound = 0
           THEN /\ Len(requests') = Len(requests) + 1
                /\ ~requests'[Len(requests')].stream
                /\ pc' = "flat"
           ELSE (requests' = requests /\ pc' # "flat"))]_vars
  /\ [][(pc \in {"flat", "post"}) => requests' = requests]_vars

C6_RetrySentAfterEmptyRound ==
  /\ pc = "post"
  /\ FlatRequests # {}
  /\ streamedCharsThisRound = 0 /\ detectedThisRound = 0

\* C7: a round in which no tool call was detected is the last round of the
\* turn; a round in which one was detected is followed by another round
\* while fewer than 3 rounds have run
C7_NoToolCallEndsLoop ==
  /\ [][(pc = "round_end" /\ detectedThisRound = 0) => pc' \in {"flat", "post"}]_vars
  /\ [][(pc \in {"flat", "post", "returned", "thrown"}) =>
          (pc' \in {"flat", "post", "returned", "thrown"} /\ StreamRequests' = StreamRequests)]_vars
  /\ [][(pc = "round_end" /\ detectedThisRound > 0 /\ RoundsRun < 3) => pc' = "loop"]_vars
  /\ [][(pc = "loop" /\ RoundsRun < 3) => (pc' = "fetch" /\ RoundsRun' = RoundsRun + 1)]_vars

C7_EndedWithBudgetLeft ==
  /\ pc = "returned"
  /\ RoundsRun = 2
  /\ detectedThisRound = 0
  /\ everDetected

\* C8: every turn eventually terminates: generateResponse returns or throws
C8_TurnTerminates == <>Finished

C8_StalledTurnEnded == pc = "thrown" /\ error = "AbortError" /\ aborted

\* C9 (as claimed): at the end of each round the number of tool messages
\* appended equals the number of tool calls detected in the round
C9_OneToolMessagePerDetectedCall ==
  pc = "round_end" => toolMsgsThisRound = detectedThisRound

MalformedHead ==
  /\ pc = "calls"
  /\ calls # <<>>
  /\ Head(calls).arguments.kind = "string"
  /\ ~JSONParseArgs(Head(calls).arguments.text).ok

\* C10 (as claimed): a tool call whose arguments are a string that is not
\* valid JSON is executed with empty arguments and its result is appended
C10_MalformedArgsRunWithDefaults ==
  [][MalformedHead => (pc' = "exec1" /\ args' = EmptyArgs)]_vars

\* C10 (amended): a tool call whose arguments are a string that is not valid
\* JSON raises no error and is dropped: the tool is not executed, nothing is
\* notified and no tool message is appended; the round still counts as one
\* with a tool call
C10_MalformedArgsDropped ==
  [][MalformedHead =>
       /\ calls' = Tail(calls)
       /\ pc' \in {"calls", "lines", "read"}
       /\ error' = ""
       /\ encounteredToolCall'
       /\ UNCHANGED <<rollingMessages, messages, backendReqs, notified, haveToolResults,
                      lastToolResult, toolMsgsThisRound>>]_vars

C10_MalformedCallWasDropped ==
  /\ pc = "calls"
  /\ calls = <<TC_other>>
  /\ detectedThisRound = 2
  /\ toolMsgsThisRound = 0
  /\ backendReqs = <<>>

\* C11 (as claimed): a tool call in the flat shape {name, arguments} is
\* handled like the nested call with the same name and arguments: for the
\* layout tool with valid arguments the executor is invoked with the same
\* backend request
C11_FlatCallRunsLikeNested ==
  [][(pc = "calls" /\ calls # <<>> /\ Head(calls).shape = "flat") =>
       LET nested == [Head(calls) EXCEPT !.shape = "nested"]
           r == ResolveArgs(nested)
       IN (r.ok /\ nested.name = TOOL_NAME) =>
            /\ pc' = "exec1"
            /\ args' = r.value
            /\ backendReqs' = Append(backendReqs, payload(r.value, "constraint"))]_vars

\* C12: arguments given as a JSON string resolve to the same argument
\* structure as the same arguments given as a native object, and the
\* executor sends the same backend request for both
C12_StringAndNativeArgsAgree ==
  /\ [](\A a \in ArgValues :
          ResolveArgs([TC_obj EXCEPT !.arguments = StrArgs(ArgsJson(a))])
            = ResolveArgs([TC_obj EXCEPT !.arguments = ObjArgs(a)]))
  /\ [][(pc = "calls" /\ calls # <<>> /\ Head(calls).arguments.kind = "string") =>
          \A a \in ArgValues :
            (Head(calls).arguments.text = ArgsJson(a)
               /\ Head(calls).shape = "nested" /\ Head(calls).name = TOOL_NAME) =>
              /\ pc' = "exec1"
              /\ args' = a
              /\ backendReqs' = Append(backendReqs, payload(a, "constraint"))]_vars

C12_StringArgsCallExecuted ==
  /\ pc = "exec1"
  /\ calls # <<>> /\ Head(calls) = TC_str
  /\ args = SomeArgs
  /\ backendReqs = <<payload(SomeArgs, "constraint")>>

\* C13: for one layout tool call the first backend request selects the
\* constraint solver; a second request, equal to the first but for the graph
\* solver, is sent exactly when the first answer is non-2xx; no third request
\* is sent; the body of the last answer is the tool result
C13_ConstraintFirstThenGraphOnce ==
  /\ [][(pc = "calls" /\ pc' = "exec1") =>
          /\ backendReqs' = Append(backendReqs, payload(args', "constraint"))
          /\ backendReqs'[Len(backendReqs')].solver_type = "constraint"]_vars
  /\ [][(\E o \in BackendOutcomes : Exec1Response(o)) =>
          (IF Exec1Response("notok")
           THEN /\ pc' = "exec2"
                /\ backendReqs' = Append(backendReqs,
                      [backendReqs[Len(backendReqs)] EXCEPT !.solver_type = "graph"])
           ELSE /\ pc' # "exec2"
                /\ backendReqs' = backendReqs)]_vars
  /\ [][(pc \in {"exec2", "execjson"}) => backendReqs' = backendReqs]_vars
  /\ [][ExecJson(TRUE) =>
          /\ genRes.solver = backendReqs[Len(backendReqs)].solver_type
          /\ lastToolResult' = (IF genRes.ok THEN JsonOk(genRes.solver) ELSE ErrBody)
          /\ notified'[Len(notified')].result = lastToolResult'
          /\ rollingMessages'[Len(rollingMessages')].content = StringifyResult(lastToolResult')]_vars

C13_GraphRetryAnswered ==
  /\ Len(backendReqs) = 2
  /\ backendReqs[2].solver_type = "graph"
  /\ lastToolResult = JsonOk("graph")

\* C14: a network or decode failure of the backend during a tool call raises
\* nothing: the call yields an error result with a message, the result is
\* appended as a tool message, the rest of the record and of the chunk is
\* still processed, and the round is followed by the next one (within the
\* round budget)
C14_BackendFailureIsToolResult ==
  /\ [][(Exec1Response("throw") \/ Exec2Response("throw") \/ ExecJson(FALSE)) =>
          /\ error' = "" /\ isLoading'
          /\ lastToolResult'.status = "error" /\ lastToolResult'.message # ""
          /\ rollingMessages' = Append(rollingMessages,
                Msg("tool", StringifyResult(lastToolResult'), Head(calls).name))
          /\ calls' = Tail(calls)
          /\ UNCHANGED <<segments, streamBuffer, fullResponse>>
          /\ encounteredToolCall'
          /\ pc' = (IF calls' # <<>> THEN "calls" ELSE IF segments # <<>> THEN "lines" ELSE "read")]_vars
  /\ [][(pc = "round_end" /\ toolMsgsThisRound > 0) => (pc' = "loop" /\ rounds' = rounds + 1)]_vars
  /\ [][(pc = "loop" /\ rounds < 3) => pc' = "fetch"]_vars

C14_NextRoundAfterBackendFailure ==
  /\ pc = "fetch"
  /\ Len(requests) = 2
  /\ lastToolResult = ExecError
  /\ error = ""

\* what the code makes of a response body that arrives as one chunk
RECURSIVE LinesText(_)
LinesText(lines) ==
  IF lines = <<>> THEN <<>>
  ELSE (LET p == ParseLine(Head(lines)) IN IF p.ok THEN LineContent(p.value) ELSE <<>>)
       \o LinesText(Tail(lines))

ResidualText(buffer) ==
  IF trim(buffer) = <<>> THEN <<>>
  ELSE LET p == ParseLine(buffer) IN IF p.ok THEN ResidualContent(p.value) ELSE <<>>

SingleChunkText(value) ==
  LET segs == split(decode(value))
  IN LinesText(SubSeq(segs, 1, Len(segs) - 1)) \o ResidualText(segs[Len(segs)])

\* C15 (as claimed): however the bytes delivered in a round were cut into
\* chunks, the text accumulated when the stream ends is the text the same
\* bytes give when they arrive as a single chunk
C15_ChunkBoundaryInvariance ==
  pc = "round_end" => fullResponse = SingleChunkText(sent)

\* C16 (as claimed): an unterminated last record is handled at the end of the
\* stream like a line of the read loop: it adds the same text, and its tool
\* calls are executed and notified like those of a terminated record
C16_UnterminatedLastRecordSame ==
  /\ [][(pc = "read" /\ pc' = "round_end") =>
          LET p == ParseLine(streamBuffer)
          IN fullResponse' = fullResponse \o (IF p.ok THEN LineContent(p.value) ELSE <<>>)]_vars
  /\ [](pc = "round_end" =>
          LET p == ParseLine(streamBuffer)
          IN (isOllama /\ p.ok) =>
               \A i \in DOMAIN p.value.tool_calls :
                 (ResolveArgs(p.value.tool_calls[i]).ok /\ ~NameThrows(p.value.tool_calls[i])) =>
                   \E k \in DOMAIN notified :
                     /\ notified[k].call = p.value.tool_calls[i]
                     /\ notified[k].round = rounds + 1)

\* C17: a line that cannot be parsed is skipped: the text, the character
\* count, the tool-call flag, the conversation buffer and the kept partial
\* line stay as they are, and the next line of the chunk is processed next;
\* an unparsable rest at the end of the stream is skipped likewise
C17_MalformedLineSkipped ==
  /\ [][(pc = "lines" /\ segments # <<>> /\ ~ParseLine(Head(segments)).ok) =>
          /\ UNCHANGED <<fullResponse, streamedCharsThisRound, encounteredToolCall,
                         rollingMessages, messages, tokens, streamBuffer, error>>
          /\ segments' = Tail(segments)
          /\ pc' = (IF segments' # <<>> THEN "lines" ELSE "read")]_vars
  /\ [][(pc = "read" /\ pc' = "round_end" /\ ~ParseLine(streamBuffer).ok) =>
          UNCHANGED <<fullResponse, streamedCharsThisRound, encounteredToolCall,
                      rollingMessages, messages, tokens, error>>]_vars

C17_LaterLinesProcessed ==
  /\ pc = "round_end"
  /\ isOllama
  /\ \E i \in DOMAIN sent : sent[i] = "x"
  /\ fullResponse = <<"a">>
  /\ detectedThisRound = 1 /\ toolMsgsThisRound = 1

\* C18 (as claimed): once the line 'data: [DONE]' was read, no later line of
\* the stream adds text to the response or is delivered to the token callback
C18_NothingAfterDone ==
  [][(doneSeen /\ pc \in {"lines", "read"}) =>
       (fullResponse' = fullResponse /\ tokens' = tokens)]_vars

\* the tool messages of the calls handled in round r, in the order handled
ToolMsgsOf(r) ==
  LET N == SelectSeq(notified, LAMBDA n : n.round = r)
  IN [k \in 1..Len(N) |-> Msg("tool", StringifyResult(N[k].result), N[k].call.name)]

\* C19: a request is sent only while no tool call and no line of the previous
\* round is pending, and the message list of round k+1 is the message list of
\* round k, then one tool message per call handled in round k, in the order
\* handled, then the steering message
C19_RoundsSequential ==
  /\ [](\A j \in StreamRequests :
          requests[j].round > 1 =>
            \E i \in StreamRequests :
              /\ i < j
              /\ requests[i].round = requests[j].round - 1
              /\ requests[j].messages =
                   requests[i].messages \o ToolMsgsOf(requests[i].round)
                     \o <<Msg("assistant", <<STEERING>>, "")>>)
  /\ [][requests' # requests =>
          (calls = <<>> /\ segments = <<>> /\ pc \in {"loop", "round_end"})]_vars
  /\ [][(pc \in {"lines", "calls", "exec1", "exec2", "execjson"}) => requests' = requests]_vars

C19_SecondRoundAfterTwoToolMessages ==
  \E j \in StreamRequests :
    /\ requests[j].round = 2
    /\ Len(requests[j].messages) = Len(InputMessages) + 3

\* C20 (as claimed): the fallback starts its backend request only when, at
\* the moment its budget elapses, no token was delivered and no tool call
\* was detected in the turn
C20_NoFallbackAfterTokenOrToolCall ==
  [][(watchdog = "armed" /\ watchdog' = "fetch1") =>
       (tokens = <<>> /\ detectedThisRound = 0 /\ ~everDetected)]_vars

\* C24: once the read loop of a round has been left, normally or by an
\* exception, no stall timer remains armed
C24_NoStallTimerAfterReadLoop ==
  (pc \in {"round_end", "loop", "flat", "post", "returned", "thrown"}) => ~stallTimer

Collapsed(reasoning) ==
  <<DETAILS_OPEN, NL, NL>> \o reasoning \o <<NL, NL, DETAILS_CLOSE>>
Tags(text) == {i \in DOMAIN text : text[i] \in {THINK_OPEN, THINK_CLOSE}}
Blank(text) == \A i \in DOMAIN text : text[i] \in Whitespace

C27_OnlyFirstSentenceDecides ==
  (/\ pc = "returned"
   /\ Tags(fullResponse) = {}
   /\ ~Blank(fullResponse)
   /\ trim(fullResponse)[1] \notin Openers)
  => returned = trim(fullResponse)

\* s is an initial part of t
IsPrefix(s, t) == Len(s) <= Len(t) /\ SubSeq(t, 1, Len(s)) = s

\* C30: while generateResponse runs its working message list only grows at
\* its end, and the array the caller passed is never changed
C30_WorkingListAppendOnly ==
  [][(pc \notin {"idle", "returned", "thrown"})
     => (/\ IsPrefix(rollingMessages, rollingMessages')
         /\ Len(rollingMessages') <= Len(rollingMessages) + 1
         /\ messages' = messages
         /\ messages = InputMessages)]_vars

\* the working list has grown by a tool message and a steering message while
\* the array of the caller is as it was passed
C30_GrownBesideCallerArray ==
  /\ pc = "fetch"
  /\ Len(rollingMessages) = Len(messages) + 2
  /\ rollingMessages[Len(messages) + 1].role = "tool"
  /\ messages = InputMessages

\* C21 (as claimed): the fallback makes exactly one backend request
C21_ExactlyOneFallbackRequest == Len(fallbackReqs) <= 1

\* C21 (amended): when the budget elapses in a turn whose text started no
\* direct generation, with no token delivered and no tool call reported, the
\* fallback sends one request whose rooms, plot and facing come from the user
\* text; it sends one more, the same but for the solver, only when the first
\* is answered with a non-2xx status, and never a third; in any other turn
\* it sends none
C21_FallbackOneRequestAndOneRetry ==
  /\ [][(watchdog = "armed" /\ watchdog' \in {"fetch1", "done"})
        => IF ~normalized.matched /\ tokens = <<>> /\ notified = <<>>
           THEN /\ Len(fallbackReqs') = 1
                /\ LET r == fallbackReqs'[1]
                   IN /\ r = FallbackPayload(userContent, r.solver_type)
                      /\ userContent = PlainText
                           => /\ Len(r.rooms) = 5
                              /\ <<r.plotWidth, r.plotLength, r.house_facing>> = <<3000, 3000, "">>
                      /\ userContent = <<"3", "bhk", "west", "facing">>
                           => /\ Len(r.rooms) = 7
                              /\ <<r.plotWidth, r.plotLength, r.house_facing>> = <<3000, 3000, "west">>
                      /\ userContent = <<"12", "bhk", "north">>
                           => Len(r.rooms) = 5
                      /\ userContent = <<"20", "ft", "width", "600", "ft^2">>
                           => /\ Len(r.rooms) = 5
                              /\ <<r.plotWidth, r.plotLength, r.house_facing>> = <<2000, 3000, "">>
           ELSE fallbackReqs' = <<>>]_vars
  /\ [][(fallbackReqs # <<>> /\ fallbackReqs' # fallbackReqs)
        => (/\ Len(fallbackReqs) = 1
            /\ WatchdogFetch1("notok")
            /\ Len(fallbackReqs') = 2
            /\ \E solver \in {"constraint", "graph"} :
                 /\ solver # fallbackReqs[1].solver_type
                 /\ fallbackReqs'[2] = [fallbackReqs[1] EXCEPT !.solver_type = solver])]_vars

\* the fallback has retried for a text that names the rooms and the facing
C21_FallbackRetried ==
  /\ userContent = <<"3", "bhk", "west", "facing">>
  /\ tokens = <<>>
  /\ Len(fallbackReqs) = 2
  /\ watchdog = "done"

\* C22: the first request of the fallback selects the constraint solver, and
\* the graph solver is requested only by its retry
C22_FallbackConstraintFirst ==
  \A i \in DOMAIN fallbackReqs :
    fallbackReqs[i].solver_type = (IF i = 1 THEN "constraint" ELSE "graph")

\* C23: a fallback that ends without a new layout has shown a failure notice,
\* and has changed neither the layout nor the course of the turn
C23_FallbackFailureIsNotified ==
  [][(watchdog \in {"fetch1", "fetch2", "json_ok", "json_notok"} /\ watchdog' = "done")
     => \/ /\ Len(toasts') = Len(toasts) + 1
           /\ toasts'[Len(toasts')].title = "Fallback floor plan generated"
        \/ /\ Len(toasts') = Len(toasts) + 1
           /\ toasts'[Len(toasts')].variant = "destructive"
           /\ rooms' = rooms
           /\ <<pc, error, hs>>' = <<pc, error, hs>>]_vars

\* C28: when generateResponse throws, handleSend shows the one generic error
\* notice and leaves the session as it was: the earlier messages and the new
\* user message, in order, and no assistant message
C28_FailureReportedOnceSessionKept ==
  /\ [][(hs = "llm" /\ pc = "thrown" /\ hs' # hs)
        => (/\ hs' = "failed"
            /\ toasts' = Append(toasts, Toast("Error",
                                "Failed to generate response. Please try again.", "destructive"))
            /\ sessionMessages' = sessionMessages)]_vars
  /\ [](hs = "failed"
        => (/\ sessionMessages = PriorMessages \o <<userMessage>>
            /\ Cardinality({i \in DOMAIN toasts : toasts[i].title = "Error"}) = 1))

\* generateResponse has thrown after a token and a tool result, and handleSend
\* has dealt with it
C28_FailedAfterTokenAndToolResult ==
  /\ hs = "failed"
  /\ tokens # <<>>
  /\ notified # <<>>

\* what the claim says of a foot pair, of an area and of its two examples
FeetRounded(ft, mm) == 10 * mm - 5 <= 3048 * ft /\ 3048 * ft < 10 * mm + 5
SqrtFeetRounded(areaFt, mm) ==
  /\ LeqFrac(5 * (2 * mm - 1), 3048, areaFt * 3048, 5 * (2 * mm - 1))
  /\ ~LeqFrac(5 * (2 * mm + 1), 3048, areaFt * 3048, 5 * (2 * mm + 1))
ConversionsAndExamples ==
  /\ feetToMeters(30) = 9144
  /\ \A t \in DOMAIN Numbers : FeetRounded(parseFloat(t), feetToMeters(parseFloat(t)))
  /\ (~dimFeet(userContent).matched /\ ~dimMeters(userContent).matched
        /\ areaFeet(userContent).matched)
       => /\ normalized.matched
          /\ normalized.widthM = normalized.heightM
          /\ SqrtFeetRounded(parseFloat(areaFeet(userContent).g1), normalized.widthM)
  /\ userContent = <<"30", "x", "30", "ft">>
       => <<normalized.widthM, normalized.heightM>> = <<9144, 9144>>
  /\ userContent = <<"400", "sq ft">>
       => <<normalized.widthM, normalized.heightM>> = <<6096, 6096>>

\* C29 (as claimed): feetToMeters rounds to the millimetre, a foot pair
\* W x H gives feetToMeters of W and of H, an area in square feet gives the
\* square of side feetToMeters(sqrt(area))
C29_FeetPairGivesBothSides ==
  (hs # "idle") =>
    /\ ConversionsAndExamples
    /\ dimFeet(userContent).matched
         => /\ normalized.matched
            /\ normalized.widthM = feetToMeters(parseFloat(dimFeet(userContent).g1))
            /\ normalized.heightM = feetToMeters(parseFloat(dimFeet(userContent).g2))

\* C29 (amended): the same, except that a pair written 'W by 3' at the very
\* end of the text is read as the square W by W
C29_FeetPairUnlessCutOffBy3 ==
  (hs # "idle") =>
    /\ ConversionsAndExamples
    /\ dimFeet(userContent).matched
         => LET n == Len(userContent)
                cutOff == At(userContent, n - 1) = "by" /\ At(userContent, n) = "3"
                w == parseFloat(dimFeet(userContent).g1)
                h == parseFloat(dimFeet(userContent).g2)
            IN /\ normalized.matched
               /\ normalized.widthM = feetToMeters(w)
               /\ normalized.heightM = feetToMeters(IF cutOff THEN w ELSE h)

\* handleSend has read '30 ft by 3' as a square, and '12 by 3 ft' as it is
C29_CutOffPairReadAsSquare ==
  /\ hs # "idle"
  /\ userContent = <<"30", "ft", "by", "3">>
  /\ <<normalized.widthM, normalized.heightM>> = <<9144, 9144>>

\* C31: the solver named in the synthesized summary is the solver_type the
\* backend reported in the last tool result
C31_SummaryNamesSolverOfLastResult ==
  [][(/\ pc = "post"
      /\ pc' = "returned"
      /\ fullResponse = <<>>
      /\ lastToolResult.status = "success")
     => (/\ fullResponse'[1] = "Generated layout using"
         /\ fullResponse'[2] = lastToolResult.solver_type)]_vars

\* C32: when no text was accumulated and every tool result of the turn is an
\* error result, the text returned does not report a generated layout
C32_NoSummaryWithoutSuccess ==
  [][(/\ pc = "post"
      /\ pc' = "returned"
      /\ fullResponse = <<>>
      /\ tokens = <<>>
      /\ \A i \in DOMAIN notified : notified[i].result.status = "error")
     => (\A j \in DOMAIN fullResponse' : fullResponse'[j] # "Generated layout using")]_vars

\* the words of an answer, and how often a text holds one
Words == {"a", "Okay,"}
Count(text, c) == Cardinality({i \in DOMAIN text : text[i] = c})

\* C33: the sanitizer loses no content: every word of the accumulated text is
\* in the text returned as often as it was given, and the word of a tagged
\* span is inside the collapsed block, also with two or more tagged spans
C33_SanitizerLosesNoContent ==
  (pc = "returned" /\ fullResponse # <<>>) =>
    /\ \A c \in Words : Count(fullResponse, c) <= Count(returned, c)
    /\ \A i \in DOMAIN fullResponse :
         (/\ fullResponse[i] = THINK_OPEN
          /\ At(fullResponse, i + 1) \in Words
          /\ At(fullResponse, i + 2) = THINK_CLOSE)
         => \E k \in DOMAIN returned :
              /\ returned[k] = fullResponse[i + 1]
              /\ \E o \in 1..(k - 1) : returned[o] = DETAILS_OPEN
              /\ \E e \in (k + 1)..Len(returned) : returned[e] = DETAILS_CLOSE

\* C34: the message list handed to generateResponse holds the new user
\* message exactly once, as its last element
C34_UserMessageOnceAndLast ==
  (messages # <<>>) =>
    /\ messages[Len(messages)] = userMessage
    /\ Cardinality({i \in DOMAIN messages : messages[i] = userMessage}) = 1

\* C37: once handleSend has finished the turn, with the assistant message or
\* with the report of a failure, the fallback timer of the turn is not armed,
\* and the fallback neither calls the backend nor replaces the layout
C37_FallbackEndsWithTurn ==
  /\ [](hs \in {"done", "failed"} => watchdog # "armed")
  /\ [][(hs \in {"done", "failed"})
        => (fallbackReqs' = fallbackReqs /\ rooms' = rooms)]_vars

\* C38: after handleSend has finished, whether the turn succeeded or
\* generateResponse threw, the live streaming buffer is empty
C38_BufferEmptyBetweenTurns ==
  (hs \in {"done", "failed"}) => currentResponse = <<>>

\* C35: in a round sent with tools disabled no tool is executed, no backend
\* request is made for one and no tool message is appended, whatever the
\* stream of the round holds
C35_NoToolRunWhenToolsDisabled ==
  [][(/\ shouldDisableToolsThisRound
      /\ pc \in {"read", "lines", "calls", "exec1", "exec2", "execjson"})
     => (/\ backendReqs' = backendReqs
         /\ notified' = notified
         /\ rollingMessages' = rollingMessages)]_vars

\* C36: while the orchestrator awaits the backend call of a tool execution
\* the stall timer does not cancel the request of the round
C36_NoAbortDuringToolExecution ==
  [][(pc \in {"exec1", "exec2", "execjson"}) => (aborted' = aborted)]_vars

\* C39: after every setValue call the value in memory is the value stored
\* under the key; when storing fails the value in memory is left as it was
C39_MemoryEqualsPersisted ==
  [][(store' # store) => (item' = JSONStringify(storedValue'))]_vars

\* C40: a user message is added to the session, that is, a handleSend call
\* starts, only while no earlier handleSend call is unfinished
C40_OneTurnInFlight ==
  [][(/\ Len(sessionMessages') = Len(sessionMessages) + 1
      /\ sessionMessages'[Len(sessionMessages')].role = "user")
     => (hs \in {"idle", "done", "failed"})]_vars

====
